---------------------------- MODULE Spec2Model ----------------------------
(***************************************************************************)
(* Model of the SS-FV calculator (src/ssfv_calculator.py): the part-number *)
(* parser, the dimension / BOM / production-time / pricing functions and   *)
(* process_part_number, which assembles them.                              *)
(*                                                                         *)
(* Representation.                                                         *)
(*  - A Python str is a sequence of one-character strings.                 *)
(*  - A Python dict is a record; `"k" in d` is "k" \in DOMAIN d.           *)
(*  - A Python float is a record [k, n, d]: k = "fin" for the rational     *)
(*    n/d (d > 0), k = "inf" or "nan" for the two non-finite values.       *)
(*    Arithmetic is exact rational arithmetic.  The binary rounding error  *)
(*    of IEEE doubles shows in one place only, which the model keeps: a    *)
(*    price that is an exact decimal tie between two cents is in binary a  *)
(*    little above or below the tie, so round(price, 2) gives either       *)
(*    neighbour; a rounded price is the pair [low, high] of the cents it   *)
(*    can be (low = high off a tie).  BOM values are multiples of 1/16 or  *)
(*    of 0.001, which round(x, 3) rounds as exact values, a tie to the     *)
(*    even neighbour.                                                      *)
(*  - A call either returns (raised = "none", ret = the value) or raises   *)
(*    (raised = the exception's class name).                               *)
(*  - fs is the set of directories in the working directory; tables holds  *)
(*    the three configuration tables of the calculator instance and        *)
(*    threads the position of each thread inside process_part_number on   *)
(*    that shared instance.  Spec is the calculator called by one caller,  *)
(*    one method at a time; SpecShared is the construction of the instance *)
(*    followed by calls of process_part_number from several threads.       *)
(***************************************************************************)
EXTENDS Integers, Sequences, FiniteSets, TLC

VARIABLES op, args, ret, raised, invoked, fs, tables, threads

vars == <<op, args, ret, raised, invoked, fs, tables, threads>>

-----------------------------------------------------------------------------
(* Python str operations used by the parser *)

Digits == {"0", "1", "2", "3", "4", "5", "6", "7", "8", "9"}

IsDigit(c) == c \in Digits

DigitVal(c) ==
  CASE c = "0" -> 0 [] c = "1" -> 1 [] c = "2" -> 2 [] c = "3" -> 3
    [] c = "4" -> 4 [] c = "5" -> 5 [] c = "6" -> 6 [] c = "7" -> 7
    [] c = "8" -> 8 [] c = "9" -> 9

\* str.upper() on the characters of the model's alphabet
UpperChar(c) ==
  CASE c = "c" -> "C" [] c = "m" -> "M" [] c = "i" -> "I" [] c = "n" -> "N"
    [] c = "f" -> "F" [] c = "a" -> "A" [] OTHER -> c

Upper(s) == [i \in 1..Len(s) |-> UpperChar(s[i])]

Drop(s, k) == SubSeq(s, k + 1, Len(s))

StartsWith(s, p) == Len(s) >= Len(p) /\ SubSeq(s, 1, Len(p)) = p

EndsWith(s, p) == Len(s) >= Len(p) /\ SubSeq(s, Len(s) - Len(p) + 1, Len(s)) = p

\* s[:-k] for k > 0
DropLast(s, k) == SubSeq(s, 1, Len(s) - k)

\* s[-k:] for k > 0
LastChars(s, k) == IF Len(s) <= k THEN s ELSE SubSeq(s, Len(s) - k + 1, Len(s))

RECURSIVE LStrip(_)
LStrip(s) == IF s # <<>> /\ s[1] = " " THEN LStrip(Tail(s)) ELSE s

RECURSIVE RStrip(_)
RStrip(s) ==
  IF s # <<>> /\ s[Len(s)] = " " THEN RStrip(DropLast(s, 1)) ELSE s

\* str.strip(): the model's only whitespace character is the blank
Strip(s) == RStrip(LStrip(s))

\* str.split("-"): the list of the segments between hyphens
RECURSIVE SplitFrom(_, _, _)
SplitFrom(s, i, cur) ==
  IF i > Len(s) THEN <<cur>>
  ELSE IF s[i] = "-" THEN <<cur>> \o SplitFrom(s, i + 1, <<>>)
  ELSE SplitFrom(s, i + 1, Append(cur, s[i]))

Split(s) == SplitFrom(s, 1, <<>>)

\* the index of the first occurrence of p in s at or after i, 0 when none
RECURSIVE Find(_, _, _)
Find(s, p, i) ==
  IF i + Len(p) - 1 > Len(s) THEN 0
  ELSE IF SubSeq(s, i, i + Len(p) - 1) = p THEN i
  ELSE Find(s, p, i + 1)

\* s[a-1:b], clipped to the string as Python slices are
Slice(s, a, b) == SubSeq(s, a, IF b > Len(s) THEN Len(s) ELSE b)

\* `p in s`
Contains(s, p) == Find(s, p, 1) # 0

\* str.replace(p, ""): every non-overlapping occurrence, left to right
RECURSIVE Remove(_, _)
Remove(s, p) ==
  LET i == Find(s, p, 1)
  IN IF i = 0 THEN s
     ELSE SubSeq(s, 1, i - 1) \o Remove(Drop(s, i + Len(p) - 1), p)

-----------------------------------------------------------------------------
(* The two regular expressions of parse_part_number *)

CM_UPPER == <<"C", "M">>
CM_LOWER == <<"c", "m">>

\* the end of the maximal digit run that starts at i (s[i] is a digit)
RECURSIVE DigitRunEnd(_, _)
DigitRunEnd(s, i) ==
  IF i < Len(s) /\ IsDigit(s[i + 1]) THEN DigitRunEnd(s, i + 1) ELSE i

\* the end of the match of \d+(?:CM|cm)? that starts at i: the digits are
\* greedy and the unit marker is taken when it follows in one case
MatchEnd(s, i) ==
  LET e == DigitRunEnd(s, i)
      next2 == Slice(s, e + 1, e + 2)
  IN IF next2 = CM_UPPER \/ next2 = CM_LOWER THEN e + 2 ELSE e

\* re.search('(\d+(?:CM|cm)?)', s): group 1 of the leftmost match, <<>> for
\* no match (a match is never empty)
RECURSIVE SearchLength(_, _)
SearchLength(s, i) ==
  IF i > Len(s) THEN <<>>
  ELSE IF IsDigit(s[i]) THEN SubSeq(s, i, MatchEnd(s, i))
  ELSE SearchLength(s, i + 1)

\* whether \d+(?:CM|cm)?$ matches from i: the engine backtracks over the
\* optional marker and over the greedy digits, so a match from i exists iff
\* s[i..] is digits, or digits followed by CM or cm, up to the end
MatchesToEnd(s, i) ==
  /\ IsDigit(s[i])
  /\ LET e == DigitRunEnd(s, i)
         rest == SubSeq(s, e + 1, Len(s))
     IN rest = <<>> \/ rest = CM_UPPER \/ rest = CM_LOWER

\* re.search('(\d+(?:CM|cm)?)$', s): group 1 of the leftmost match
RECURSIVE SearchLengthAtEnd(_, _)
SearchLengthAtEnd(s, i) ==
  IF i > Len(s) THEN <<>>
  ELSE IF MatchesToEnd(s, i) THEN SubSeq(s, i, Len(s))
  ELSE SearchLengthAtEnd(s, i + 1)

-----------------------------------------------------------------------------
(* Python floats, as exact rationals *)

RECURSIVE Gcd(_, _)
Gcd(a, b) == IF b = 0 THEN a ELSE Gcd(b, a % b)

Abs(x) == IF x < 0 THEN -x ELSE x

\* the finite float n/d, in lowest terms with d > 0
Fin(n, d) ==
  LET g == Gcd(Abs(n), Abs(d))
      sgn == IF d < 0 THEN -1 ELSE 1
  IN [k |-> "fin", n |-> sgn * (n \div g), d |-> sgn * (d \div g)]

Inf == [k |-> "inf", n |-> 0, d |-> 1]
NaN == [k |-> "nan", n |-> 0, d |-> 1]

IsFinite(x) == x.k = "fin"

\* math.ceil(n / d) for d > 0
CeilDiv(n, d) == -((-n) \div d)

\* a call's outcome: a returned value, or a raised exception
Returns(v) == [exc |-> "none", val |-> v]
Raises(e) == [exc |-> e, val |-> <<>>]

RECURSIVE DigitsValue(_)
DigitsValue(s) ==
  IF s = <<>> THEN 0 ELSE 10 * DigitsValue(DropLast(s, 1)) + DigitVal(s[Len(s)])

RECURSIVE Pow10(_)
Pow10(k) == IF k = 0 THEN 1 ELSE 10 * Pow10(k - 1)

AllDigits(s) == \A i \in 1..Len(s) : IsDigit(s[i])

INF_UPPER == <<"I", "N", "F">>
NAN_UPPER == <<"N", "A", "N">>
DOT == <<".">>

\* float(s) for a str over the model's alphabet (no sign, exponent or
\* underscore occurs in it): surrounding blanks are ignored; digits with at
\* most one point and at least one digit give the number; inf and nan in
\* any case give the non-finite values; anything else is a ValueError
ParseFloat(s) ==
  LET t == Strip(s)
      p == Find(t, DOT, 1)
      ip == IF p = 0 THEN t ELSE SubSeq(t, 1, p - 1)
      fp == IF p = 0 THEN <<>> ELSE Drop(t, p)
  IN IF Upper(t) = INF_UPPER THEN Returns(Inf)
     ELSE IF Upper(t) = NAN_UPPER THEN Returns(NaN)
     ELSE IF AllDigits(ip) /\ AllDigits(fp) /\ Len(ip) + Len(fp) > 0
       THEN Returns(Fin(DigitsValue(ip \o fp), Pow10(Len(fp))))
     ELSE Raises("ValueError")

-----------------------------------------------------------------------------
(* parse_part_number *)

SS_FV == <<"S", "S", "-", "F", "V">>
SS_FV8 == <<"S", "S", "-", "F", "V", "8">>
SS_FV12 == <<"S", "S", "-", "F", "V", "1", "2">>
SS_FV16 == <<"S", "S", "-", "F", "V", "1", "6">>

S0424 == <<"0", "4", "2", "4">>
S0660 == <<"0", "6", "6", "0">>
S0663 == <<"0", "6", "6", "3">>
S0658 == <<"0", "6", "5", "8">>
S0662 == <<"0", "6", "6", "2">>
S1 == <<"1">>
S2 == <<"2">>

\* the size codes, as Python strs
SIZE08 == <<"0", "8">>
SIZE12 == <<"1", "2">>
SIZE16 == <<"1", "6">>

\* an error result: the message, and the text interpolated at its end
Error(msg, detail) == [error |-> <<msg, detail>>]

NoText == <<>>

\* the family check taken for a search of FV anywhere in the code
IsFamilyAnywhere(part_number) == Contains(part_number, <<"F", "V">>)

\* line 145: part_number.startswith("SS-FV")
IsFamily(part_number) == StartsWith(part_number, SS_FV)

\* the size of the prefix SS-FV8 taken as written, 8
SizeOfAsWritten(part_number) ==
  IF StartsWith(part_number, SS_FV8) THEN <<"8">>
  ELSE IF StartsWith(part_number, SS_FV12) THEN SIZE12
  ELSE IF StartsWith(part_number, SS_FV16) THEN SIZE16
  ELSE <<>>

\* lines 152-159: the size of the code, <<>> when no sub-prefix matches
SizeOf(part_number) ==
  IF StartsWith(part_number, SS_FV8) THEN SIZE08
  ELSE IF StartsWith(part_number, SS_FV12) THEN SIZE12
  ELSE IF StartsWith(part_number, SS_FV16) THEN SIZE16
  ELSE <<>>

\* the tier with the five special suffixes kept in one list, all of them
\* taken for MLI
PerformanceOfOneList(part_number) ==
  IF \E x \in {S0424, S0660, S0663, S0658, S0662} : EndsWith(part_number, x)
    THEN [performance |-> "MLI", performance_suffix |-> LastChars(part_number, 4)]
  ELSE IF EndsWith(part_number, S1)
    THEN [performance |-> "STD", performance_suffix |-> S1]
  ELSE IF EndsWith(part_number, S2)
    THEN [performance |-> "MLI", performance_suffix |-> S2]
  ELSE [performance |-> "none", performance_suffix |-> <<>>]

\* the tier with STD taken when no ending matches
PerformanceOfDefaultStd(part_number) ==
  IF \/ EndsWith(part_number, S0424)
     \/ EndsWith(part_number, S0660)
     \/ EndsWith(part_number, S0663)
    THEN [performance |-> "MLI", performance_suffix |-> LastChars(part_number, 4)]
  ELSE IF EndsWith(part_number, S0658) \/ EndsWith(part_number, S0662)
    THEN [performance |-> "STD", performance_suffix |-> LastChars(part_number, 4)]
  ELSE IF EndsWith(part_number, S1)
    THEN [performance |-> "STD", performance_suffix |-> S1]
  ELSE IF EndsWith(part_number, S2)
    THEN [performance |-> "MLI", performance_suffix |-> S2]
  ELSE [performance |-> "STD", performance_suffix |-> <<>>]

\* lines 161-178: the performance tier and the suffix that selected it;
\* performance "none" when no ending matches
PerformanceOf(part_number) ==
  IF \/ EndsWith(part_number, S0424)
     \/ EndsWith(part_number, S0660)
     \/ EndsWith(part_number, S0663)
    THEN [performance |-> "MLI", performance_suffix |-> LastChars(part_number, 4)]
  ELSE IF EndsWith(part_number, S0658) \/ EndsWith(part_number, S0662)
    THEN [performance |-> "STD", performance_suffix |-> LastChars(part_number, 4)]
  ELSE IF EndsWith(part_number, S1)
    THEN [performance |-> "STD", performance_suffix |-> S1]
  ELSE IF EndsWith(part_number, S2)
    THEN [performance |-> "MLI", performance_suffix |-> S2]
  ELSE [performance |-> "none", performance_suffix |-> <<>>]

\* f"FV{size}TN{size}TN{size}"
ExpectedBase(size) ==
  <<"F", "V">> \o size \o <<"T", "N">> \o size \o <<"T", "N">> \o size

\* lines 180-232: the length token, as [err, length_str]: err is the error
\* result returned instead, or <<>> when a token was extracted
ExtractLength(part_number, size, performance_suffix) ==
  LET parts == Split(part_number)
      found(t) == [err |-> <<>>, length_str |-> t]
      fails(e) == [err |-> <<e>>, length_str |-> <<>>]
  IN IF Len(parts) >= 3 THEN
       LET m == SearchLength(parts[3], 1)
       IN IF m # <<>> THEN found(m)
          ELSE fails(Error("Could not extract length from: ", parts[3]))
     ELSE IF Len(parts) = 2 THEN
       LET full_part == parts[2]
       IN IF EndsWith(full_part, performance_suffix) THEN
            LET remaining == DropLast(full_part, Len(performance_suffix))
                expected_base == ExpectedBase(size)
            IN IF StartsWith(remaining, expected_base) THEN
                 LET length_str == Drop(remaining, Len(expected_base))
                 IN IF length_str = <<>>
                      THEN fails(Error("No length found after base pattern", NoText))
                      ELSE found(length_str)
               ELSE
                 LET m == SearchLengthAtEnd(remaining, 1)
                 IN IF m # <<>> THEN found(m)
                    ELSE fails(Error("Could not extract length from compressed format", NoText))
          ELSE fails(Error("Invalid compressed format", NoText))
     ELSE fails(Error("Invalid part number format - need at least 2 hyphens", NoText))

\* the conversion with the factor applied the wrong way: x * 2.54
CmToInchesTimes(x) ==
  IF IsFinite(x) THEN Fin(254 * x.n, 100 * x.d) ELSE x

\* x / 2.54
CmToInches(x) ==
  IF IsFinite(x) THEN Fin(100 * x.n, 254 * x.d) ELSE x

\* lines 234-244: the length and its unit from the token; the float() of
\* the centimeter branch is outside the try
ConvertLength(length_str) ==
  IF Contains(Upper(length_str), CM_UPPER) THEN
    LET f == ParseFloat(Remove(Upper(length_str), CM_UPPER))
    IN IF f.exc # "none" THEN Raises(f.exc)
       ELSE Returns([length |-> CmToInches(f.val), length_unit |-> "cm_converted"])
  ELSE
    LET f == ParseFloat(length_str)
    IN IF f.exc # "none"
         THEN Returns(Error("Invalid length value: ", length_str))
         ELSE Returns([length |-> f.val, length_unit |-> "inches"])

\* the parser with the performance suffix tested before the size
ParsePartNumberSuffixFirst(pn) ==
  LET part_number == Strip(pn)
      size == SizeOf(part_number)
      perf == PerformanceOf(part_number)
  IN IF ~IsFamily(part_number)
       THEN Returns(Error("Not a valid SS-FV format", NoText))
     ELSE IF perf.performance = "none"
       THEN Returns(Error("Invalid performance indicator (must end with 1, 2, or special codes: 0424, 0660, 0663, 0658, 0662)", NoText))
     ELSE IF size = <<>>
       THEN Returns(Error("Unknown SS-FV size", NoText))
     ELSE
       LET x == ExtractLength(part_number, size, perf.performance_suffix)
       IN IF x.err # <<>> THEN Returns(x.err[1])
          ELSE IF x.length_str = <<>>
            THEN Returns(Error("Could not extract length from part number", NoText))
          ELSE
            LET c == ConvertLength(x.length_str)
            IN IF c.exc # "none" THEN Raises(c.exc)
               ELSE IF "error" \in DOMAIN c.val THEN Returns(c.val)
               ELSE Returns([size |-> size,
                             pressure |-> "HP",
                             performance |-> perf.performance,
                             length |-> c.val.length,
                             length_unit |-> c.val.length_unit])

\* parse_part_number(part_number): the descriptor, an error result, or an
\* exception
ParsePartNumber(pn) ==
  LET part_number == Strip(pn)
      size == SizeOf(part_number)
      perf == PerformanceOf(part_number)
  IN IF ~IsFamily(part_number)
       THEN Returns(Error("Not a valid SS-FV format", NoText))
     ELSE IF size = <<>>
       THEN Returns(Error("Unknown SS-FV size", NoText))
     ELSE IF perf.performance = "none"
       THEN Returns(Error("Invalid performance indicator (must end with 1, 2, or special codes: 0424, 0660, 0663, 0658, 0662)", NoText))
     ELSE
       LET x == ExtractLength(part_number, size, perf.performance_suffix)
       IN IF x.err # <<>> THEN Returns(x.err[1])
          ELSE IF x.length_str = <<>>
            THEN Returns(Error("Could not extract length from part number", NoText))
          ELSE
            LET c == ConvertLength(x.length_str)
            IN IF c.exc # "none" THEN Raises(c.exc)
               ELSE IF "error" \in DOMAIN c.val THEN Returns(c.val)
               ELSE Returns([size |-> size,
                             pressure |-> "HP",
                             performance |-> perf.performance,
                             length |-> c.val.length,
                             length_unit |-> c.val.length_unit])

-----------------------------------------------------------------------------
(* Rounding helpers and the dimension calculation *)

HP_ADJUSTMENT == 4

\* x + y and x * y for finite floats, over the least common denominator
\* and with the factors reduced crosswise
AddF(x, y) ==
  LET g == Gcd(x.d, y.d)
  IN Fin(x.n * (y.d \div g) + y.n * (x.d \div g), (x.d \div g) * y.d)

MulF(x, y) ==
  LET a == Fin(x.n, y.d)
      b == Fin(y.n, x.d)
  IN Fin(a.n * b.n, a.d * b.d)

\* x + t/1000 and x * m/1000 on floats; a non-finite x stays what it is
\* (only positive factors and finite addends occur)
AddMilli(x, t) == IF IsFinite(x) THEN AddF(x, Fin(t, 1000)) ELSE x

MulMilli(x, m) == IF IsFinite(x) THEN MulF(x, Fin(m, 1000)) ELSE x

\* x * q for the int q (a non-finite x never reaches a multiplication by a
\* quantity: math.ceil raises before it)
MulInt(x, q) == IF IsFinite(x) THEN MulF(x, Fin(q, 1)) ELSE x

\* x - y for the finite y
SubF(x, y) == IF IsFinite(x) THEN AddF(x, Fin(-y.n, y.d)) ELSE x

\* x <= c for the int c (False whenever x is nan)
Leq(x, c) == x.k = "fin" /\ x.n <= c * x.d

\* math.ceil(x * m) as [exc, val]: ceil raises OverflowError on an
\* infinity and ValueError on nan
CeilTimes(x, m) ==
  IF x.k = "inf" THEN Raises("OverflowError")
  ELSE IF x.k = "nan" THEN Raises("ValueError")
  ELSE Returns(m * (x.n \div x.d) + CeilDiv(m * (x.n % x.d), x.d))

\* round(x, digits) of a finite float: to the nearest multiple of
\* 10^-digits, a tie to the even one
Round(x, digits) ==
  LET p == Pow10(digits)
      scaled == (x.n % x.d) * p
      lo == (x.n \div x.d) * p + scaled \div x.d
      twice == 2 * (scaled % x.d)
      up == twice > x.d \/ (twice = x.d /\ lo % 2 = 1)
  IN Fin(IF up THEN lo + 1 ELSE lo, p)

\* round(x, 2) of a price: the cent below and the cent above when x is a
\* tie between them, and twice the nearest cent otherwise
RoundCents(x) ==
  LET scaled == (x.n % x.d) * 100
      lo == (x.n \div x.d) * 100 + scaled \div x.d
      twice == 2 * (scaled % x.d)
  IN [low |-> Fin(IF twice > x.d THEN lo + 1 ELSE lo, 100),
      high |-> Fin(IF twice >= x.d THEN lo + 1 ELSE lo, 100)]

\* the sixteenths counted with floor(...) + 1: a multiple of a sixteenth
\* goes up to the next one
RoundUpToSixteenthNext(value) ==
  LET c == CeilTimes(value, 16)
  IN IF c.exc # "none" THEN c
     ELSE Returns(Fin(16 * (value.n \div value.d)
                        + (16 * (value.n % value.d)) \div value.d + 1, 16))

\* lines 254-256
RoundUpToSixteenth(value) ==
  LET c == CeilTimes(value, 16)
  IN IF c.exc # "none" THEN c ELSE Returns(Fin(c.val, 16))

\* the half feet counted with floor(...) + 1: a length that is a whole
\* number of half feet goes up to the next one
RoundUpToHalfFeetNext(inches) ==
  LET feet == IF IsFinite(inches) THEN Fin(inches.n, 12 * inches.d) ELSE inches
      c == CeilTimes(feet, 2)
  IN IF c.exc # "none" THEN c
     ELSE Returns(Fin((2 * feet.n) \div feet.d + 1, 2))

\* lines 258-261: ceil((inches / 12) / 0.5) * 0.5
RoundUpToHalfFeet(inches) ==
  LET feet == IF IsFinite(inches) THEN Fin(inches.n, 12 * inches.d) ELSE inches
      c == CeilTimes(feet, 2)
  IN IF c.exc # "none" THEN c ELSE Returns(Fin(c.val, 2))

\* the minutes rounded to the nearest whole minute (a half goes up)
RoundToMinute(minutes) ==
  IF ~IsFinite(minutes) THEN CeilTimes(minutes, 1)
  ELSE Returns((2 * minutes.n + minutes.d) \div (2 * minutes.d))

\* lines 263-265
RoundUpToMinute(minutes) == CeilTimes(minutes, 1)

\* the multiplier chosen with < in place of <=: a threshold takes the
\* higher multiplier
CalculateOverallLengthStrict(x) ==
  IF Leq(x, 48) /\ x # Fin(48, 1) THEN MulMilli(x, 1005)
  ELSE IF Leq(x, 120) /\ x # Fin(120, 1) THEN MulMilli(x, 1035)
  ELSE IF Leq(x, 360) /\ x # Fin(360, 1) THEN MulMilli(x, 1050)
  ELSE MulMilli(x, 1072)

\* lines 267-280
CalculateOverallLength(x) ==
  IF Leq(x, 48) THEN MulMilli(x, 1005)
  ELSE IF Leq(x, 120) THEN MulMilli(x, 1035)
  ELSE IF Leq(x, 360) THEN MulMilli(x, 1050)
  ELSE MulMilli(x, 1072)

\* lines 41-46, in thousandths of an inch
size_constants ==
  (SIZE08 :> [base_reduction |-> 2 * 2971, base_addition |-> 2 * 221,
              convolution |-> 2 * 371])
  @@ (SIZE12 :> [base_reduction |-> 2 * 2973, base_addition |-> 2 * 318,
                 convolution |-> 2 * 452])
  @@ (SIZE16 :> [base_reduction |-> 2 * 2974, base_addition |-> (2 * 4115) \div 10,
                 convolution |-> 2 * 457])

Zero == Fin(0, 1)

\* the first BOM value rounded up to the sixteenth before it is returned
CalculateFirstBomValueRounded(length, size) ==
  IF size \notin DOMAIN size_constants THEN Zero
  ELSE
    LET constants == size_constants[size]
        overall_length == CalculateOverallLength(length)
        value == AddMilli(overall_length,
                          constants.base_addition + 1000 * HP_ADJUSTMENT
                            + constants.convolution - constants.base_reduction)
    IN IF IsFinite(value) THEN RoundUpToSixteenth(value).val ELSE value

\* lines 282-299, on the calculator self: its table is read as it is at
\* the call
CalculateFirstBomValueOn(self, length, size) ==
  IF size \notin DOMAIN self.size_constants THEN Zero
  ELSE
    LET constants == self.size_constants[size]
        overall_length == CalculateOverallLength(length)
    IN AddMilli(overall_length,
                - constants.base_reduction + constants.base_addition
                + 1000 * HP_ADJUSTMENT + constants.convolution)

\* calculate_first_bom_value on a calculator as constructed
CalculateFirstBomValue(length, size) ==
  CalculateFirstBomValueOn([size_constants |-> size_constants], length, size)

-----------------------------------------------------------------------------
(* The BOM templates and generate_bom *)

Length1(pn) == [part_number |-> pn, type |-> "length1"]
Constant(pn, v) == [part_number |-> pn, value |-> v, type |-> "constant"]
Length1Minus(pn, m) ==
  [part_number |-> pn, type |-> "length1_minus", minus_value |-> m]
Length1MinusTimes6(pn, m) ==
  [part_number |-> pn, type |-> "length1_minus_times6", minus_value |-> m]

Two == Fin(2, 1)
Seven == Fin(7, 1)
ThreeAndHalf == Fin(35, 10)
TapeLength == Fin(71, 1000)

\* f"SS-FV{size}_{performance}"
CaseKey(size, performance) == <<"SS-FV", size, "_", performance>>

\* lines 48-110
bom_templates ==
  (CaseKey(SIZE08, "STD") :>
     << Length1("H008"), Constant("BB003", Two), Constant("HF004", Two),
        Length1Minus("CS007", Seven), Length1Minus("H013", ThreeAndHalf),
        Constant("CF003", Two), Constant("HTB-255K", TapeLength) >>)
  @@ (CaseKey(SIZE08, "MLI") :>
     << Length1("H008"), Constant("BB003", Two), Constant("HF004", Two),
        Length1MinusTimes6("MI001", Seven), Length1MinusTimes6("MR001", Seven),
        Length1Minus("CS010", Seven), Length1Minus("H016", ThreeAndHalf),
        Constant("CF009", Two), Constant("HTB-255K", TapeLength) >>)
  @@ (CaseKey(SIZE12, "STD") :>
     << Length1("H011"), Constant("BB004", Two), Constant("HF005", Two),
        Length1Minus("CS010", Seven), Length1Minus("H016", ThreeAndHalf),
        Constant("CF004", Two), Constant("HTB-255K", TapeLength) >>)
  @@ (CaseKey(SIZE12, "MLI") :>
     << Length1("H011"), Constant("BB004", Two), Constant("HF005", Two),
        Length1MinusTimes6("MI002", Seven), Length1MinusTimes6("MR002", Seven),
        Length1Minus("CS010", Seven), Length1Minus("H022", ThreeAndHalf),
        Constant("CF010", Two), Constant("HTB-255K", TapeLength) >>)
  @@ (CaseKey(SIZE16, "STD") :>
     << Length1("H014"), Constant("BB005", Two), Constant("HF006", Two),
        Length1Minus("CS010", Seven), Length1Minus("H019", ThreeAndHalf),
        Constant("CF005", Two), Constant("HTB-255K", TapeLength) >>)
  @@ (CaseKey(SIZE16, "MLI") :>
     << Length1("H014"), Constant("BB005", Two), Constant("HF006", Two),
        Length1MinusTimes6("MI003", Seven), Length1MinusTimes6("MR003", Seven),
        Length1Minus("CS010", Seven), Length1Minus("H022", ThreeAndHalf),
        Constant("CF011", Two), Constant("HTB-255K", TapeLength) >>)

\* the value of one line with the quantity multiplied in before the
\* rounding up to the sixteenth
BomLineValueMultiplyFirst(item_template, first_item_value, quantity) ==
  LET item_type == item_template.type
      inches(r) ==
        IF r.exc # "none" THEN r
        ELSE Returns([value |-> r.val, unit |-> "IN"])
  IN IF item_type = "length1"
       THEN inches(RoundUpToSixteenth(MulInt(first_item_value, quantity)))
     ELSE IF item_type = "constant"
       THEN Returns([value |-> MulInt(item_template.value, quantity), unit |-> "EA"])
     ELSE IF item_type = "length1_minus"
       THEN inches(RoundUpToSixteenth(
                     MulInt(SubF(first_item_value, item_template.minus_value), quantity)))
     ELSE IF item_type = "length1_minus_times6"
       THEN inches(RoundUpToSixteenth(
                     MulInt(MulInt(SubF(first_item_value, item_template.minus_value), 6),
                            quantity)))
     ELSE Returns([value |-> Fin(quantity, 1), unit |-> "EA"])

\* lines 316-334: the value and unit of one line, before the 3-decimal
\* rounding, as [exc, val]
BomLineValue(item_template, first_item_value, quantity) ==
  LET item_type == item_template.type
      times(r, unit) ==
        IF r.exc # "none" THEN r
        ELSE Returns([value |-> MulInt(r.val, quantity), unit |-> unit])
  IN IF item_type = "length1"
       THEN times(RoundUpToSixteenth(first_item_value), "IN")
     ELSE IF item_type = "constant"
       THEN Returns([value |-> MulInt(item_template.value, quantity), unit |-> "EA"])
     ELSE IF item_type = "length1_minus"
       THEN times(RoundUpToSixteenth(SubF(first_item_value, item_template.minus_value)), "IN")
     ELSE IF item_type = "length1_minus_times6"
       THEN times(RoundUpToSixteenth(
                    MulInt(SubF(first_item_value, item_template.minus_value), 6)), "IN")
     ELSE Returns([value |-> Fin(quantity, 1), unit |-> "EA"])

\* one line stored without the 3-decimal rounding
BomLineUnrounded(item_template, i, first_item_value, quantity) ==
  LET v == BomLineValue(item_template, first_item_value, quantity)
  IN IF v.exc # "none" THEN v
     ELSE Returns([item_number |-> i,
                   part_number |-> item_template.part_number,
                   value |-> v.val.value,
                   unit |-> v.val.unit])

\* one line numbered with the index of enumerate(), which starts at 0
BomLineZeroBased(item_template, i, first_item_value, quantity) ==
  LET v == BomLineValue(item_template, first_item_value, quantity)
  IN IF v.exc # "none" THEN v
     ELSE Returns([item_number |-> i - 1,
                   part_number |-> item_template.part_number,
                   value |-> Round(v.val.value, 3),
                   unit |-> v.val.unit])

\* lines 336-342
BomLine(item_template, i, first_item_value, quantity) ==
  LET v == BomLineValue(item_template, first_item_value, quantity)
  IN IF v.exc # "none" THEN v
     ELSE Returns([item_number |-> i,
                   part_number |-> item_template.part_number,
                   value |-> Round(v.val.value, 3),
                   unit |-> v.val.unit])

\* the outcome of a loop whose i-th pass has the outcome outs[i]: the first
\* exception raised, or the list of the values
Collect(outs) ==
  LET bad == {i \in DOMAIN outs : outs[i].exc # "none"}
  IN IF bad # {}
       THEN Raises(outs[CHOOSE i \in bad : \A j \in bad : i <= j].exc)
       ELSE Returns([i \in DOMAIN outs |-> outs[i].val])

\* lines 301-344, on the calculator self
GenerateBomOn(self, size, performance, length, quantity) ==
  LET bom_key == CaseKey(size, performance)
  IN IF bom_key \notin DOMAIN self.bom_templates THEN Returns(<<>>)
     ELSE
       LET template == self.bom_templates[bom_key]
           first_item_value == CalculateFirstBomValueOn(self, length, size)
       IN Collect([i \in DOMAIN template |->
                     BomLine(template[i], i, first_item_value, quantity)])

\* generate_bom on a calculator as constructed
GenerateBom(size, performance, length, quantity) ==
  GenerateBomOn([size_constants |-> size_constants, bom_templates |-> bom_templates], size, performance, length, quantity)

-----------------------------------------------------------------------------
(* Pricing, description and production times *)

Cents(c) == Fin(c, 100)

\* lines 113-138
pricing_formulas ==
  (CaseKey(SIZE08, "STD") :> [base_price |-> Cents(13733), price_per_foot |-> Cents(3709)])
  @@ (CaseKey(SIZE08, "MLI") :> [base_price |-> Cents(14761), price_per_foot |-> Cents(5262)])
  @@ (CaseKey(SIZE12, "STD") :> [base_price |-> Cents(14789), price_per_foot |-> Cents(4432)])
  @@ (CaseKey(SIZE12, "MLI") :> [base_price |-> Cents(16094), price_per_foot |-> Cents(6270)])
  @@ (CaseKey(SIZE16, "STD") :> [base_price |-> Cents(15140), price_per_foot |-> Cents(5062)])
  @@ (CaseKey(SIZE16, "MLI") :> [base_price |-> Cents(16365), price_per_foot |-> Cents(6823)])

\* the price looked up without the test for the key: an unmapped key raises
CalculatePricingKeyError(length, size, performance) ==
  LET pricing_key == CaseKey(size, performance)
      h == RoundUpToHalfFeet(length)
  IN IF pricing_key \notin DOMAIN pricing_formulas THEN Raises("KeyError")
     ELSE IF h.exc # "none" THEN h
     ELSE
       LET pricing_config == pricing_formulas[pricing_key]
       IN Returns(AddF(pricing_config.base_price,
                       MulF(pricing_config.price_per_foot, h.val)))

\* lines 346-359, on the calculator self
CalculatePricingOn(self, length, size, performance) ==
  LET pricing_key == CaseKey(size, performance)
      h == RoundUpToHalfFeet(length)
  IN IF h.exc # "none" THEN h
     ELSE IF pricing_key \notin DOMAIN self.pricing_formulas
       THEN Returns(AddF(Cents(13733), MulF(Cents(3709), h.val)))
     ELSE
       LET pricing_config == self.pricing_formulas[pricing_key]
       IN Returns(AddF(pricing_config.base_price,
                       MulF(pricing_config.price_per_foot, h.val)))

\* calculate_pricing on a calculator as constructed
CalculatePricing(length, size, performance) ==
  CalculatePricingOn([pricing_formulas |-> pricing_formulas], length, size, performance)

QUOTE == <<"\"">>

\* lines 364-370: size_map.get(size, f'{size}"')
SizeDesc(size) ==
  IF size = SIZE08 THEN <<"1", "/", "2">> \o QUOTE
  ELSE IF size = SIZE12 THEN <<"3", "/", "4">> \o QUOTE
  ELSE IF size = SIZE16 THEN <<"1">> \o QUOTE
  ELSE size \o QUOTE

\* lines 361-371: the description, as the fields the f-string joins with
\* blanks: size_desc, pressure, performance, then f'{length:.0f}"' (the
\* length to the nearest integer, a tie to the even one) and the words
\* "Insulon Hose"
GenerateDescription(size, pressure, performance, length) ==
  << SizeDesc(size), pressure, performance,
     [number |-> IF IsFinite(length) THEN Round(length, 0) ELSE length,
      mark |-> QUOTE],
     "Insulon Hose" >>

\* one operation: intercept + slope * (l / 12), both in thousandths
Operation(name, intercept, slope, op_number) ==
  [name |-> name, intercept |-> intercept, slope |-> slope, op_number |-> op_number]

\* lines 379-400
STD_OPERATIONS ==
  << Operation("Insulon Hose Cutting and HP Inner SA", 25000, 170, "65cba8e0011f783b09a277d6"),
     Operation("Insulon Hose Assembly", 15000, 440, "65cb9b47bd03e2f47a349719"),
     Operation("Insulon Hose Thermal Test", 7500, 90, "65cb9d4cbd03e2f47a349796"),
     Operation("Insulon Hose QC and Laser Mark", 10000, 83, "65cba2babd03e2f47a3498be") >>

\* lines 413-434
MLI_OPERATIONS ==
  << Operation("Insulon Hose Cutting and HP Inner SA", 25000, 170, "65cba8e0011f783b09a277d6"),
     Operation("Insulon Hose Assembly w/ MLI", 20000, 1440, "65d4d84db16fca47947176d3"),
     Operation("Insulon Hose Thermal Test", 7500, 90, "65cb9d4cbd03e2f47a349796"),
     Operation("Insulon Hose QC and Laser Mark", 10000, 83, "65cba2babd03e2f47a3498be") >>

\* op["formula"](length)
Formula(operation, l) ==
  LET feet == IF IsFinite(l) THEN Fin(l.n, 12 * l.d) ELSE l
  IN AddMilli(MulMilli(feet, operation.slope), operation.intercept)

\* lines 402-408 and 435-441: one ProductionTimeItem
ProductionTimeItem(operation, length) ==
  LET t == RoundUpToMinute(Formula(operation, length))
  IN IF t.exc # "none" THEN t
     ELSE Returns([operation |-> operation.name,
                   time_minutes |-> t.val,
                   operation_number |-> operation.op_number])

\* lines 373-442
CalculateProductionTimes(performance, length) ==
  LET operations ==
        IF performance = "STD" THEN STD_OPERATIONS
        ELSE IF performance = "MLI" THEN MLI_OPERATIONS
        ELSE <<>>
  IN Collect([i \in DOMAIN operations |-> ProductionTimeItem(operations[i], length)])

-----------------------------------------------------------------------------
(* process_part_number *)

\* the sum of the times, the last item left out
RECURSIVE SumTimesButLast(_)
SumTimesButLast(items) ==
  IF Len(items) <= 1 THEN 0
  ELSE items[1].time_minutes + SumTimesButLast(Tail(items))

RECURSIVE SumTimes(_)
SumTimes(items) ==
  IF items = <<>> THEN 0 ELSE items[1].time_minutes + SumTimes(Tail(items))

\* line 483: {item.part_number: item.value for item in bom_items}; a later
\* item replaces an earlier one with the same part number
BomItemsSimple(bom_items) ==
  [pn \in {bom_items[i].part_number : i \in DOMAIN bom_items} |->
     LET last == CHOOSE i \in DOMAIN bom_items :
                   /\ bom_items[i].part_number = pn
                   /\ \A j \in DOMAIN bom_items :
                        bom_items[j].part_number = pn => j <= i
     IN bom_items[last].value]

\* lines 485-490: the time and the number of each operation, by its name
ProductionOperations(production_items) ==
  [name \in {production_items[i].operation : i \in DOMAIN production_items} |->
     LET last == CHOOSE i \in DOMAIN production_items :
                   /\ production_items[i].operation = name
                   /\ \A j \in DOMAIN production_items :
                        production_items[j].operation = name => j <= i
     IN [time_minutes |-> production_items[last].time_minutes,
         operation_number |-> production_items[last].operation_number]]

\* line 498: the result of the except clause; str(e) is kept as the
\* exception's class
Caught(exc) == Error("Error processing part number: ", <<exc>>)

\* lines 473-495
Assemble(part_number, quantity, parsed, bom_items, production_items, unit_price, total_price, first_bom_value, description) ==
  [part_number |-> part_number,
   description |-> description,
   size |-> parsed.size,
   pressure |-> parsed.pressure,
   performance |-> parsed.performance,
   length |-> parsed.length,
   length_unit |-> parsed.length_unit,
   first_bom_value |-> Round(first_bom_value, 3),
   bom_items |-> bom_items,
   bom_items_simple |-> BomItemsSimple(bom_items),
   production_items |-> production_items,
   production_operations |-> ProductionOperations(production_items),
   quantity |-> quantity,
   unit_price |-> RoundCents(unit_price),
   total_price |-> RoundCents(total_price),
   total_production_time |-> SumTimes(production_items)]

\* a finished call of process_part_number: its result and the methods it
\* called, in order
Done(result, calls) == [ret |-> result, exc |-> "none", calls |-> calls]

\* process_part_number without its try: the exception reaches the caller
ExceptMissing(exc, calls) == [ret |-> <<>>, exc |-> exc, calls |-> calls]

\* lines 497-498: an exception raised inside the try is caught and becomes
\* the result
Except(exc, calls) == Done(Caught(exc), calls)

\* the total taken from the unit price already rounded to cents
AfterPricingFromRounded(part_number, quantity, parsed, bom_items, production_items, unit_price, calls) ==
  LET f == IF bom_items # <<>>
             THEN RoundUpToSixteenth(CalculateFirstBomValue(parsed.length, parsed.size))
             ELSE Returns(Zero)
      c5 == IF bom_items # <<>>
              THEN Append(calls, "calculate_first_bom_value")
              ELSE calls
  IN IF f.exc # "none" THEN Except(f.exc, c5)
     ELSE Done(Assemble(part_number, quantity, parsed, bom_items,
                        production_items, unit_price,
                        MulInt(RoundCents(unit_price).high, quantity), f.val,
                        GenerateDescription(parsed.size, parsed.pressure,
                                            parsed.performance, parsed.length)),
               Append(c5, "generate_description"))

\* lines 467-495: after the pricing, on the calculator self
AfterPricingOn(self, part_number, quantity, parsed, bom_items, production_items, unit_price, calls) ==
  LET f == IF bom_items # <<>>
             THEN RoundUpToSixteenth(CalculateFirstBomValueOn(self, parsed.length, parsed.size))
             ELSE Returns(Zero)
      c5 == IF bom_items # <<>>
              THEN Append(calls, "calculate_first_bom_value")
              ELSE calls
  IN IF f.exc # "none" THEN Except(f.exc, c5)
     ELSE Done(Assemble(part_number, quantity, parsed, bom_items,
                        production_items, unit_price,
                        MulInt(unit_price, quantity), f.val,
                        GenerateDescription(parsed.size, parsed.pressure,
                                            parsed.performance, parsed.length)),
               Append(c5, "generate_description"))

\* after the pricing on a calculator as constructed
AfterPricing(part_number, quantity, parsed, bom_items, production_items, unit_price, calls) ==
  AfterPricingOn([size_constants |-> size_constants], part_number, quantity, parsed, bom_items, production_items, unit_price, calls)

\* line 465: after calculate_pricing
AfterUnitPrice(part_number, quantity, parsed, bom_items, production_items, u, calls) ==
  IF u.exc # "none" THEN Except(u.exc, calls)
  ELSE AfterPricing(part_number, quantity, parsed, bom_items, production_items,
                    u.val, calls)

\* lines 463-464: after the production times
AfterTimes(part_number, quantity, parsed, bom_items, t, calls) ==
  IF t.exc # "none" THEN Except(t.exc, calls)
  ELSE AfterUnitPrice(part_number, quantity, parsed, bom_items, t.val,
                      CalculatePricing(parsed.length, parsed.size, parsed.performance),
                      Append(calls, "calculate_pricing"))

\* lines 460-461: after the BOM
AfterBom(part_number, quantity, parsed, b, calls) ==
  IF b.exc # "none" THEN Except(b.exc, calls)
  ELSE AfterTimes(part_number, quantity, parsed, b.val,
                  CalculateProductionTimes(parsed.performance, parsed.length),
                  Append(calls, "calculate_production_times"))

\* process_part_number returning the parser's error together with the part
\* number it was given
AfterParsePartial(part_number, quantity, p, calls) ==
  IF p.exc # "none" THEN Except(p.exc, calls)
  ELSE IF "error" \in DOMAIN p.val
    THEN Done([error |-> p.val.error, part_number |-> part_number], calls)
  ELSE AfterBom(part_number, quantity, p.val,
                GenerateBom(p.val.size, p.val.performance, p.val.length, quantity),
                Append(calls, "generate_bom"))

\* lines 449-458: after the parse
AfterParse(part_number, quantity, p, calls) ==
  IF p.exc # "none" THEN Except(p.exc, calls)
  ELSE IF "error" \in DOMAIN p.val THEN Done(p.val, calls)
  ELSE AfterBom(part_number, quantity, p.val,
                GenerateBom(p.val.size, p.val.performance, p.val.length, quantity),
                Append(calls, "generate_bom"))

\* lines 444-498: the result and the methods called, in order; every
\* exception raised inside the try is caught
ProcessPartNumber(part_number, quantity) ==
  AfterParse(part_number, quantity, ParsePartNumber(part_number),
             <<"parse_part_number">>)

-----------------------------------------------------------------------------
(* The calls the model makes *)

MaxQty == 2
MaxInches == 125
MaxCm == 20

\* the quantities passed: none, a return (negative), and orders of 1..MaxQty
Quantities == -1..MaxQty

\* part numbers: a head (family prefix and size as written), the
\* TN segments in one of four shapes, a length token, a unit marker, an
\* optional hyphen and the performance suffix
Heads ==
  { [text |-> <<"S", "S", "-", "F", "V", "0", "8">>, written |-> <<"0", "8">>],
    [text |-> <<"S", "S", "-", "F", "V", "8">>, written |-> <<"0", "8">>],
    [text |-> <<"S", "S", "-", "F", "V", "8">>, written |-> <<"8">>],
    [text |-> <<"S", "S", "-", "F", "V", "1", "2">>, written |-> <<"1", "2">>],
    [text |-> <<"S", "S", "-", "F", "V", "1", "6">>, written |-> <<"1", "6">>],
    [text |-> <<"S", "S", "-", "F", "V", "2", "0">>, written |-> <<"2", "0">>],
    [text |-> <<"S", "X", "-", "F", "V", "1", "2">>, written |-> <<"1", "2">>],
    [text |-> <<"S", "S", "F", "V", "1", "2">>, written |-> <<"1", "2">>] }

Shapes == {"multi", "base", "hyphen", "none"}

TN == <<"T", "N">>
HYPHEN == <<"-">>

Middle(shape, written) ==
  CASE shape = "multi" -> HYPHEN \o TN \o written \o HYPHEN
    [] shape = "base" -> TN \o written \o TN \o written
    [] shape = "hyphen" -> HYPHEN
    [] shape = "none" -> <<>>

\* length tokens without a unit marker: none, zero, a whole number, a
\* decimal, an infinity and a word
PlainLengths ==
  { <<>>, <<"0">>, <<"6", "0">>, <<"6", ".", "5">>, <<"i", "n", "f">>, <<"X">> }

\* the four spellings of the unit marker
CmMarkers == { <<"C", "M">>, <<"c", "m">>, <<"C", "m">>, <<"c", "M">> }

\* length tokens with a unit marker: two numbers in every spelling, the
\* marker alone and a word
CmLengthTokens ==
  { n \o m : n \in {<<"6", "0">>, <<"1", "0", "0">>}, m \in CmMarkers }
  \cup { <<"C", "M">>, <<"X", "C", "M">> }

LengthTokens == PlainLengths \cup CmLengthTokens

Separators == {<<>>, HYPHEN}

Suffixes ==
  { <<"1">>, <<"2">>, <<"3">>, <<>>,
    S0424, S0660, S0663, S0658, S0662 }

BLANK == <<" ">>

\* whether s has a run of more than k digits
LongDigitRun(s, k) ==
  \E i \in 1..Len(s) : IsDigit(s[i]) /\ DigitRunEnd(s, i) - i >= k

\* the part numbers passed: every combination in which no run of digits is
\* longer than four, so that every length, over the denominators the
\* centimeter conversion brings and times six and a quantity, stays within
\* TLC's 32-bit integers; and the codes of one head between blanks
Combined ==
  { h.text \o Middle(sh, h.written) \o l \o sep \o suf :
      h \in Heads, sh \in Shapes, l \in LengthTokens,
      sep \in Separators, suf \in Suffixes }

PartNumbers ==
  LET fits == {pn \in Combined : ~LongDigitRun(pn, 4)}
  IN fits \cup {BLANK \o pn \o BLANK : pn \in {c \in fits : StartsWith(c, SS_FV16)}}

\* the sizes, tiers and lengths passed to the calculation methods directly:
\* the three sizes and an unmapped one, the two tiers and an unmapped one
Sizes == {SIZE08, SIZE12, SIZE16, <<"2", "0">>}

Performances == {"STD", "MLI", "XYZ"}

InchLengths == {Fin(n, 1) : n \in 0..MaxInches}

CmLengths == {CmToInches(Fin(n, 1)) : n \in 1..MaxCm}

\* the upper breakpoints of calculate_overall_length, a thousandth of an
\* inch above each breakpoint, and the non-finite floats
EdgeLengths ==
  { Fin(48001, 1000), Fin(120001, 1000), Fin(360, 1), Fin(360001, 1000),
    Fin(361, 1), Inf, NaN }

Lengths == InchLengths \cup CmLengths \cup EdgeLengths

NoArgs == [none |-> TRUE]
NoValue == <<>>

\* lines 41-138: the tables of a calculator as constructed
Calculator ==
  [size_constants |-> size_constants,
   bom_templates |-> bom_templates,
   pricing_formulas |-> pricing_formulas]

\* before the construction there is no instance
NoCalculator == <<>>

\* the threads that share the instance
Threads == {"t1", "t2"}

\* a thread outside process_part_number
Idle ==
  [pc |-> "idle", part_number |-> <<>>, quantity |-> 0, parsed |-> NoValue,
   bom_items |-> NoValue, production_items |-> NoValue, unit_price |-> NoValue,
   calls |-> <<>>, ret |-> NoValue]

\* line 36: the default output directory, and another one
OUTPUT == "output"
OutputDirectories == {OUTPUT, "reports"}

\* the calculator constructed with its default output directory
Init ==
  /\ op = "idle"
  /\ args = NoArgs
  /\ ret = NoValue
  /\ raised = "none"
  /\ invoked = <<>>
  /\ fs = {OUTPUT}
  /\ tables = Calculator
  /\ threads = [t \in Threads |-> Idle]

\* a call of a method that calls no other method of the calculator's
\* pipeline on the caller's behalf: its outcome is recorded
Call(name, a, outcome) ==
  /\ op' = name
  /\ args' = a
  /\ ret' = outcome.val
  /\ raised' = outcome.exc
  /\ invoked' = <<>>
  /\ UNCHANGED <<fs, tables, threads>>

ProcessPartNumberCall ==
  /\ op = "idle"
  /\ \E pn \in PartNumbers, q \in Quantities :
       LET r == ProcessPartNumber(pn, q)
       IN /\ op' = "process_part_number"
          /\ args' = [part_number |-> pn, quantity |-> q]
          /\ ret' = r.ret
          /\ raised' = r.exc
          /\ invoked' = r.calls
          /\ UNCHANGED <<fs, tables, threads>>

ParsePartNumberCall ==
  /\ op = "idle"
  /\ \E pn \in PartNumbers :
       Call("parse_part_number", [part_number |-> pn], ParsePartNumber(pn))

GenerateBomCall ==
  /\ op = "idle"
  /\ \E size \in Sizes, performance \in Performances, length \in Lengths,
        q \in Quantities :
       Call("generate_bom",
            [size |-> size, performance |-> performance, length |-> length,
             quantity |-> q],
            GenerateBom(size, performance, length, q))

CalculatePricingCall ==
  /\ op = "idle"
  /\ \E size \in Sizes, performance \in Performances, length \in Lengths :
       Call("calculate_pricing",
            [length |-> length, size |-> size, performance |-> performance],
            CalculatePricing(length, size, performance))

CalculateProductionTimesCall ==
  /\ op = "idle"
  /\ \E performance \in Performances, length \in Lengths :
       Call("calculate_production_times",
            [performance |-> performance, length |-> length],
            CalculateProductionTimes(performance, length))

CalculateFirstBomValueCall ==
  /\ op = "idle"
  /\ \E size \in Sizes, length \in Lengths :
       Call("calculate_first_bom_value", [length |-> length, size |-> size],
            Returns(CalculateFirstBomValue(length, size)))

CalculateOverallLengthCall ==
  /\ op = "idle"
  /\ \E x \in Lengths :
       Call("calculate_overall_length", [x |-> x], Returns(CalculateOverallLength(x)))

\* round_up_to_sixteenth is also passed the first BOM values of the lengths
RoundUpToSixteenthCall ==
  /\ op = "idle"
  /\ \E x \in Lengths \cup {CalculateFirstBomValue(l, SIZE08) : l \in Lengths} :
       Call("round_up_to_sixteenth", [value |-> x], RoundUpToSixteenth(x))

RoundUpToHalfFeetCall ==
  /\ op = "idle"
  /\ \E x \in Lengths :
       Call("round_up_to_half_feet", [inches |-> x], RoundUpToHalfFeet(x))

GenerateDescriptionCall ==
  /\ op = "idle"
  /\ \E size \in Sizes, performance \in Performances, length \in Lengths :
       Call("generate_description",
            [size |-> size, pressure |-> "HP", performance |-> performance,
             length |-> length],
            Returns(GenerateDescription(size, "HP", performance, length)))

\* the caller drops the outcome; the calculator is ready for the next call
Release ==
  /\ op # "idle"
  /\ op' = "idle"
  /\ args' = NoArgs
  /\ ret' = NoValue
  /\ raised' = "none"
  /\ invoked' = <<>>
  /\ UNCHANGED <<fs, tables, threads>>

Next ==
  \/ ProcessPartNumberCall
  \/ ParsePartNumberCall
  \/ GenerateBomCall
  \/ CalculatePricingCall
  \/ CalculateProductionTimesCall
  \/ CalculateFirstBomValueCall
  \/ CalculateOverallLengthCall
  \/ RoundUpToSixteenthCall
  \/ RoundUpToHalfFeetCall
  \/ GenerateDescriptionCall
  \/ Release

Spec == Init /\ [][Next]_vars

-----------------------------------------------------------------------------
(* One instance shared by several threads *)

\* the part numbers and quantities the threads pass: the two tiers, a
\* decimal length, a code the parser rejects and one on which it raises
SharedPartNumbers ==
  { SS_FV8 \o HYPHEN \o <<"6", "0">> \o HYPHEN \o S1,
    SS_FV12 \o HYPHEN \o <<"6", "0">> \o HYPHEN \o S2,
    SS_FV12 \o HYPHEN \o <<"6", ".", "5">> \o HYPHEN \o S1,
    SS_FV12 \o HYPHEN \o <<"6", "0">> \o HYPHEN \o <<"3">>,
    SS_FV12 \o TN \o SIZE12 \o TN \o SIZE12 \o <<"C", "M">> \o S1 }

SharedQuantities == {1, 2}

\* before main constructs the calculator: the working directory with or
\* without the output directory, no instance, no thread in a call
InitShared ==
  /\ op = "idle"
  /\ args = NoArgs
  /\ ret = NoValue
  /\ raised = "none"
  /\ invoked = <<>>
  /\ fs \in {{}, {OUTPUT}}
  /\ tables = NoCalculator
  /\ threads = [t \in Threads |-> Idle]

\* lines 36-138: mkdir(exist_ok=True) of the output directory, then the
\* tables
Construct ==
  /\ tables = NoCalculator
  /\ \E output_directory \in OutputDirectories :
       fs' = fs \cup {output_directory}
  /\ tables' = Calculator
  /\ UNCHANGED <<op, args, ret, raised, invoked, threads>>

\* generate_bom taking the lines off the template as it goes through them
\* (template.pop(0)): the key's template is left empty
SelfAfterPop(self, method, size, performance) ==
  IF method = "generate_bom" /\ CaseKey(size, performance) \in DOMAIN self.bom_templates
    THEN [self EXCEPT !.bom_templates[CaseKey(size, performance)] = <<>>]
    ELSE self

\* the instance after a thread has run the method on it: no method that
\* process_part_number calls assigns to an attribute of self or to an
\* element of its tables
SelfAfter(self, method, size, performance) == self

\* the thread t moves on with the fields given
Continue(t, fields) ==
  threads' = [threads EXCEPT ![t] = fields @@ threads[t]]

\* lines 446-450: a thread enters process_part_number and parses
ThreadParse(t) ==
  /\ tables # NoCalculator
  /\ threads[t].pc = "idle"
  /\ \E pn \in SharedPartNumbers, q \in SharedQuantities :
       LET p == ParsePartNumber(pn)
           entered == [part_number |-> pn, quantity |-> q,
                       calls |-> <<"parse_part_number">>]
       IN IF p.exc # "none"
            THEN Continue(t, [pc |-> "done", ret |-> Caught(p.exc)] @@ entered)
          ELSE IF "error" \in DOMAIN p.val
            THEN Continue(t, [pc |-> "done", ret |-> p.val] @@ entered)
          ELSE Continue(t, [pc |-> "generate_bom", parsed |-> p.val] @@ entered)
  /\ UNCHANGED <<op, args, ret, raised, invoked, fs, tables>>

\* line 458
ThreadGenerateBom(t) ==
  /\ threads[t].pc = "generate_bom"
  /\ LET th == threads[t]
         b == GenerateBomOn(tables, th.parsed.size, th.parsed.performance,
                            th.parsed.length, th.quantity)
         c == Append(th.calls, "generate_bom")
     IN /\ IF b.exc # "none"
             THEN Continue(t, [pc |-> "done", ret |-> Caught(b.exc), calls |-> c])
             ELSE Continue(t, [pc |-> "calculate_production_times",
                               bom_items |-> b.val, calls |-> c])
        /\ tables' = SelfAfter(tables, "generate_bom", th.parsed.size,
                               th.parsed.performance)
  /\ UNCHANGED <<op, args, ret, raised, invoked, fs>>

\* line 461
ThreadProductionTimes(t) ==
  /\ threads[t].pc = "calculate_production_times"
  /\ LET th == threads[t]
         x == CalculateProductionTimes(th.parsed.performance, th.parsed.length)
         c == Append(th.calls, "calculate_production_times")
     IN /\ IF x.exc # "none"
             THEN Continue(t, [pc |-> "done", ret |-> Caught(x.exc), calls |-> c])
             ELSE Continue(t, [pc |-> "calculate_pricing",
                               production_items |-> x.val, calls |-> c])
        /\ tables' = SelfAfter(tables, "calculate_production_times",
                               th.parsed.size, th.parsed.performance)
  /\ UNCHANGED <<op, args, ret, raised, invoked, fs>>

\* lines 464-465
ThreadPricing(t) ==
  /\ threads[t].pc = "calculate_pricing"
  /\ LET th == threads[t]
         u == CalculatePricingOn(tables, th.parsed.length, th.parsed.size,
                                 th.parsed.performance)
         c == Append(th.calls, "calculate_pricing")
     IN /\ IF u.exc # "none"
             THEN Continue(t, [pc |-> "done", ret |-> Caught(u.exc), calls |-> c])
             ELSE Continue(t, [pc |-> "calculate_first_bom_value",
                               unit_price |-> u.val, calls |-> c])
        /\ tables' = SelfAfter(tables, "calculate_pricing", th.parsed.size,
                               th.parsed.performance)
  /\ UNCHANGED <<op, args, ret, raised, invoked, fs>>

\* lines 468-495: the first BOM value, the description and the result
ThreadResult(t) ==
  /\ threads[t].pc = "calculate_first_bom_value"
  /\ LET th == threads[t]
         r == AfterPricingOn(tables, th.part_number, th.quantity, th.parsed,
                             th.bom_items, th.production_items, th.unit_price,
                             th.calls)
     IN /\ Continue(t, [pc |-> "done", ret |-> r.ret, calls |-> r.calls])
        /\ tables' = SelfAfter(tables, "calculate_first_bom_value",
                               th.parsed.size, th.parsed.performance)
  /\ UNCHANGED <<op, args, ret, raised, invoked, fs>>

\* the caller of the thread takes the result
ThreadReturn(t) ==
  /\ threads[t].pc = "done"
  /\ threads' = [threads EXCEPT ![t] = Idle]
  /\ UNCHANGED <<op, args, ret, raised, invoked, fs, tables>>

NextShared ==
  \/ Construct
  \/ \E t \in Threads : ThreadParse(t)
  \/ \E t \in Threads : ThreadGenerateBom(t)
  \/ \E t \in Threads : ThreadProductionTimes(t)
  \/ \E t \in Threads : ThreadPricing(t)
  \/ \E t \in Threads : ThreadResult(t)
  \/ \E t \in Threads : ThreadReturn(t)

SpecShared == InitShared /\ [][NextShared]_vars

-----------------------------------------------------------------------------
(* Properties of process_part_number *)

\* the fields of a successful result
ResultKeys ==
  { "part_number", "description", "size", "pressure", "performance", "length",
    "length_unit", "first_bom_value", "bom_items", "bom_items_simple",
    "production_items", "production_operations", "quantity", "unit_price",
    "total_price", "total_production_time" }

Processed == op = "process_part_number"

Succeeded == raised = "none" /\ DOMAIN ret = ResultKeys

Failed == raised = "none" /\ "error" \in DOMAIN ret

\* C1: process_part_number lets no exception reach its caller: whatever the
\* part number and the quantity, the call returns, and what it returns is
\* either a result with the error field alone or a result with the sixteen
\* fields of a success.
C1_NoExceptionEscapes ==
  Processed =>
    /\ raised = "none"
    /\ \/ DOMAIN ret = {"error"}
       \/ DOMAIN ret = ResultKeys

\* a call in which the parser raised (a centimeter token without a number)
\* and the call returned the caught exception as an error result
C1_Witness ==
  /\ Processed
  /\ ParsePartNumber(args.part_number).exc = "ValueError"
  /\ raised = "none"
  /\ ret = Caught("ValueError")

\* whether the parse of the part number fails: the parser returns an error
\* result or raises
ParseFails(pn) ==
  LET p == ParsePartNumber(pn)
  IN p.exc # "none" \/ "error" \in DOMAIN p.val

\* C2: when the parse of the part number fails, process_part_number returns
\* a result whose only field is error, and it has called parse_part_number
\* and nothing else: neither generate_bom, nor calculate_production_times,
\* nor calculate_pricing.
C2_ParseFailureStopsPipeline ==
  (Processed /\ ParseFails(args.part_number)) =>
    /\ raised = "none"
    /\ DOMAIN ret = {"error"}
    /\ invoked = <<"parse_part_number">>

\* a call whose parse returned an error result, passed on as the result
C2_Witness ==
  /\ Processed
  /\ ParsePartNumber(args.part_number).exc = "none"
  /\ "error" \in DOMAIN ParsePartNumber(args.part_number).val
  /\ ret = ParsePartNumber(args.part_number).val
  /\ invoked = <<"parse_part_number">>

-----------------------------------------------------------------------------
(* Properties of parse_part_number *)

Parsed == op = "parse_part_number" /\ raised = "none" /\ "error" \notin DOMAIN ret

\* the four ceiling-rounded times of the STD operations at 60 inches:
\* 25 + 0.17 * 5, 15 + 0.44 * 5, 7.5 + 0.09 * 5 and 10 + 0.083 * 5
StdTimesAt60 == <<26, 18, 8, 11>>

\* C3: process_part_number("SS-FV08-TN08-601", 1) returns a result without
\* error, of size 08, tier STD and length 60, whose description has 1/2",
\* HP, STD and 60", whose BOM has 7 items and whose total production time is
\* the sum of the four ceiling-rounded STD operation times at length 60.
C3_EndToEndExample ==
  ( /\ Processed
    /\ args.part_number = SS_FV \o SIZE08 \o HYPHEN \o TN \o SIZE08 \o HYPHEN
                            \o <<"6", "0", "1">>
    /\ args.quantity = 1 ) =>
    /\ Succeeded
    /\ ret.size = SIZE08
    /\ ret.performance = "STD"
    /\ ret.length = Fin(60, 1)
    /\ ret.description[1] = <<"1", "/", "2">> \o QUOTE
    /\ ret.description[2] = "HP"
    /\ ret.description[3] = "STD"
    /\ ret.description[4] = [number |-> Fin(60, 1), mark |-> QUOTE]
    /\ Len(ret.bom_items) = 7
    /\ [i \in 1..4 |-> ret.production_items[i].time_minutes] = StdTimesAt60
    /\ ret.total_production_time = SumTimes(ret.production_items)

\* the suffixes of a tier
TierSuffixes(tier) ==
  IF tier = "STD" THEN {S1, S0658, S0662} ELSE {S2, S0424, S0660, S0663}

\* the codes written with the family prefix followed by the size s, in the
\* multi-segment and the compressed two-segment shape, with a length in
\* inches or centimeters and a suffix of the tier
WrittenWith(s, tier) ==
  { SS_FV \o s \o Middle(sh, s) \o l \o suf :
      sh \in {"multi", "base"},
      l \in { <<"6", "0">>, <<"6", ".", "5">>, <<"6", "0", "C", "M">> },
      suf \in TierSuffixes(tier) }

\* C4: for each size 08, 12, 16, each tier and each of the two shapes, a
\* code written with SS-FV followed by the size, a valid length and a suffix
\* of the tier parses without error to exactly that size and that tier.
C4_SizePerformanceRoundTrip ==
  \A s \in {SIZE08, SIZE12, SIZE16}, tier \in {"STD", "MLI"} :
    (op = "parse_part_number" /\ args.part_number \in WrittenWith(s, tier)) =>
      /\ Parsed
      /\ ret.size = s
      /\ ret.performance = tier

\* the codes with a special suffix, and the tier the suffix stands for
SpecialTier(part_number) ==
  IF \E x \in {S0424, S0660, S0663} : EndsWith(Strip(part_number), x) THEN "MLI"
  ELSE IF \E x \in {S0658, S0662} : EndsWith(Strip(part_number), x) THEN "STD"
  ELSE "none"

\* C5: the special 4-character suffixes win over the trailing-digit rule: a
\* code ending in 0424, 0660 or 0663 that parses is MLI, one ending in 0658
\* or 0662 that parses is STD (0662 ends in 2 and is STD all the same), the
\* suffix recorded for it is its last 4 characters, and it is never refused
\* for its performance indicator.
C5_SpecialSuffixWins ==
  (op = "parse_part_number" /\ SpecialTier(args.part_number) # "none") =>
    LET part_number == Strip(args.part_number)
        tier == SpecialTier(args.part_number)
    IN /\ PerformanceOf(part_number).performance = tier
       /\ PerformanceOf(part_number).performance_suffix = LastChars(part_number, 4)
       /\ Len(PerformanceOf(part_number).performance_suffix) = 4
       /\ Parsed => ret.performance = tier
       /\ (raised = "none" /\ "error" \in DOMAIN ret) =>
            ret.error[1] \in { "Not a valid SS-FV format", "Unknown SS-FV size",
                               "Could not extract length from: ",
                               "No length found after base pattern",
                               "Could not extract length from compressed format",
                               "Invalid length value: " }

\* a parse of a code ending in 0662, whose last character alone is the MLI
\* digit, that returned an STD descriptor
C5_Witness ==
  /\ Parsed
  /\ EndsWith(Strip(args.part_number), S0662)
  /\ EndsWith(Strip(args.part_number), S2)
  /\ ret.performance = "STD"

\* whether the float is greater than zero
Positive(x) == x.k = "inf" \/ (x.k = "fin" /\ x.n > 0)

\* C6: every descriptor a successful parse returns, and every successful
\* result, has a length greater than zero and a size among 08, 12 and 16; a
\* length token of zero gives no successful result.
C6_LengthPositive ==
  (Parsed \/ (Processed /\ Succeeded)) =>
    /\ Positive(ret.length)
    /\ ret.size \in {SIZE08, SIZE12, SIZE16}

-----------------------------------------------------------------------------
(* Properties of the pricing *)

\* x <= y and x < y for finite floats
AtMost(x, y) == SubF(x, y).n <= 0

Below(x, y) == SubF(x, y).n < 0

\* a call of calculate_pricing for one of the six keys and a finite length
Priced ==
  /\ op = "calculate_pricing"
  /\ CaseKey(args.size, args.performance) \in DOMAIN pricing_formulas
  /\ IsFinite(args.length)

\* C7: for each of the six (size, tier) keys and every length, the unit
\* price is base_price + price_per_foot * H for the key's two prices, H
\* being the least multiple of half a foot that is at least the length: H is
\* k halves of a foot with 6k inches >= length > 6(k - 1) inches, so a
\* length of a whole number of half feet is not rounded further. For size
\* 08, STD and 60 inches the price is 322.78, and so is the unit price
\* reported for such a part.
C7_UnitPrice ==
  /\ Priced =>
       /\ raised = "none"
       /\ \E k \in 0..(args.length.n \div (6 * args.length.d) + 1) :
            /\ AtMost(args.length, Fin(6 * k, 1))
            /\ Below(Fin(6 * (k - 1), 1), args.length)
            /\ LET pricing_config ==
                     pricing_formulas[CaseKey(args.size, args.performance)]
               IN ret = AddF(pricing_config.base_price,
                             MulF(pricing_config.price_per_foot, Fin(k, 2)))
  /\ (Priced /\ args.size = SIZE08 /\ args.performance = "STD"
        /\ args.length = Fin(60, 1)) => ret = Fin(32278, 100)
  /\ (Processed /\ Succeeded /\ ret.size = SIZE08 /\ ret.performance = "STD"
        /\ ret.length = Fin(60, 1)) =>
       ret.unit_price = [low |-> Fin(32278, 100), high |-> Fin(32278, 100)]

\* the price of 60 inches of size 08, STD: 5 feet, not rounded further
C7_Witness ==
  /\ Priced
  /\ args.size = SIZE08
  /\ args.performance = "STD"
  /\ args.length = Fin(60, 1)
  /\ ret = AddF(Cents(13733), MulF(Cents(3709), Fin(5, 1)))
  /\ ret = Fin(32278, 100)

\* C8: in every successful result, for every quantity, the reported
\* total_price is the reported unit_price (rounded to 2 decimals) times the
\* quantity: of the cents the two roundings can give, some pair agrees.
C8_TotalIsUnitTimesQuantity ==
  (Processed /\ Succeeded) =>
    \E u \in {ret.unit_price.low, ret.unit_price.high},
       t \in {ret.total_price.low, ret.total_price.high} :
      t = MulInt(u, ret.quantity)

\* whether c is a whole number of cents within half a cent of x
NearestCent(c, x) ==
  /\ 100 % c.d = 0
  /\ 200 * Abs(SubF(c, x).n) <= SubF(c, x).d

\* the unit price of a successful result before its rounding
UnroundedUnitPrice == CalculatePricing(ret.length, ret.size, ret.performance).val

\* C8, as the code has it: in every successful result unit_price is the
\* unit price rounded to cents and total_price is the unrounded unit price
\* times the quantity, rounded to cents; total_price is unit_price times the
\* quantity whenever the unrounded unit price is a whole number of cents.
C8_TotalFromUnroundedUnit ==
  (Processed /\ Succeeded) =>
    /\ \A c \in {ret.unit_price.low, ret.unit_price.high} :
         NearestCent(c, UnroundedUnitPrice)
    /\ \A c \in {ret.total_price.low, ret.total_price.high} :
         NearestCent(c, MulInt(UnroundedUnitPrice, ret.quantity))
    /\ 100 % UnroundedUnitPrice.d = 0 =>
         /\ ret.unit_price.low = UnroundedUnitPrice
         /\ ret.unit_price.high = UnroundedUnitPrice
         /\ ret.total_price.low = MulInt(UnroundedUnitPrice, ret.quantity)
         /\ ret.total_price.high = MulInt(UnroundedUnitPrice, ret.quantity)

\* an order of two whose unit price ends in half a cent: the total is a
\* whole number of cents, a cent off twice either rounding of the unit price
C8_Witness ==
  /\ Processed
  /\ Succeeded
  /\ ret.quantity = 2
  /\ ret.unit_price.low # ret.unit_price.high
  /\ ret.total_price.low = ret.total_price.high
  /\ ret.total_price.low = MulInt(UnroundedUnitPrice, 2)
  /\ ret.total_price.low # MulInt(ret.unit_price.low, 2)
  /\ ret.total_price.low # MulInt(ret.unit_price.high, 2)

-----------------------------------------------------------------------------
(* Properties of the bill of materials *)

\* a call of generate_bom for one of the six templates and a finite length,
\* that returned
Billed ==
  /\ op = "generate_bom"
  /\ CaseKey(args.size, args.performance) \in DOMAIN bom_templates
  /\ IsFinite(args.length)
  /\ raised = "none"

\* the per-unit length u of a template line that has one
UnitLength(item_template, size, length) ==
  LET firstComponentLength == CalculateFirstBomValue(length, size)
  IN CASE item_template.type = "length1" -> firstComponentLength
       [] item_template.type = "length1_minus" ->
            SubF(firstComponentLength, item_template.minus_value)
       [] item_template.type = "length1_minus_times6" ->
            MulInt(SubF(firstComponentLength, item_template.minus_value), 6)

\* r16(x): the least multiple of a sixteenth that is at least x
R16(x) == RoundUpToSixteenth(x).val

\* what C9 gives for line i of the template
RoundThenMultiply(item_template, size, length, q) ==
  IF item_template.type = "constant"
    THEN [value |-> Round(MulInt(item_template.value, q), 3), unit |-> "EA"]
    ELSE [value |-> Round(MulInt(R16(UnitLength(item_template, size, length)), q), 3),
          unit |-> "IN"]

\* the value with the quantity multiplied in before the rounding up
MultiplyThenRound(item_template, size, length, q) ==
  Round(R16(MulInt(UnitLength(item_template, size, length), q)), 3)

\* C9: for every template line and every quantity q, generate_bom rounds the
\* per-unit length u up to the sixteenth first, multiplies by q afterwards
\* and stores 3 decimals: value = round3(r16(u) * q), with u the first
\* component length, that length less k, or that length less k times 6; a
\* constant line has the value round3(literal * q). The lines of a length
\* have the unit IN and the constant lines EA; the lines come in the
\* template's order, numbered from 1.
C9_RoundThenMultiply ==
  Billed =>
    LET template == bom_templates[CaseKey(args.size, args.performance)]
    IN /\ Len(ret) = Len(template)
       /\ \A i \in DOMAIN template :
            /\ ret[i].item_number = i
            /\ ret[i].part_number = template[i].part_number
            /\ ret[i].value =
                 RoundThenMultiply(template[i], args.size, args.length,
                                   args.quantity).value
            /\ ret[i].unit =
                 RoundThenMultiply(template[i], args.size, args.length,
                                   args.quantity).unit

\* a bill for two in which the first line, rounded up per unit and then
\* doubled, is not what rounding up the doubled length would give
C9_Witness ==
  /\ Billed
  /\ args.quantity = 2
  /\ LET template == bom_templates[CaseKey(args.size, args.performance)]
     IN /\ template[1].type = "length1"
        /\ ret[1].value =
             Round(MulInt(R16(CalculateFirstBomValue(args.length, args.size)), 2), 3)
        /\ ret[1].value #
             MultiplyThenRound(template[1], args.size, args.length, 2)

\* C10: for fixed size, tier and length and every quantity q >= 1, the value
\* of every constant line is q times its value for the quantity 1, and the
\* value of every length1 line is exactly
\* roundUpToSixteenth(firstComponentLength) * q: the storage rounding to 3
\* decimals never changes a length rounded to the sixteenth.
C10_ScalingExact ==
  (Billed /\ args.quantity >= 1) =>
    LET template == bom_templates[CaseKey(args.size, args.performance)]
        single == GenerateBom(args.size, args.performance, args.length, 1).val
    IN \A i \in DOMAIN template :
         /\ template[i].type = "constant" =>
              ret[i].value = MulInt(single[i].value, args.quantity)
         /\ template[i].type = "length1" =>
              ret[i].value =
                MulInt(R16(CalculateFirstBomValue(args.length, args.size)),
                       args.quantity)

\* whether x is a whole number of eighths
WholeEighths(x) == 8 % x.d = 0

\* C10, as the code has it: for every quantity q >= 1 the value of every
\* constant line is q times its value for the quantity 1; the value of
\* every length1 line is roundUpToSixteenth(firstComponentLength) * q
\* rounded to 3 decimals, which is that product itself when the product is a
\* whole number of eighths of an inch (as it is for every even q) and is
\* half a thousandth away from it otherwise.
C10_ScalingRounded ==
  (Billed /\ args.quantity >= 1) =>
    LET template == bom_templates[CaseKey(args.size, args.performance)]
        single == GenerateBom(args.size, args.performance, args.length, 1).val
        exact == MulInt(R16(CalculateFirstBomValue(args.length, args.size)),
                        args.quantity)
    IN \A i \in DOMAIN template :
         /\ template[i].type = "constant" =>
              ret[i].value = MulInt(single[i].value, args.quantity)
         /\ template[i].type = "length1" =>
              /\ 1000 % ret[i].value.d = 0
              /\ WholeEighths(exact) => ret[i].value = exact
              /\ args.quantity % 2 = 0 => WholeEighths(exact)
              /\ ~WholeEighths(exact) =>
                   Abs(SubF(ret[i].value, exact).n) * 2000 = SubF(ret[i].value, exact).d

\* a bill for one whose first line is an odd number of sixteenths: the
\* stored value has 3 decimals and is not the length rounded up
C10_Witness ==
  /\ Billed
  /\ args.quantity = 1
  /\ ~WholeEighths(R16(CalculateFirstBomValue(args.length, args.size)))
  /\ ret[1].value # R16(CalculateFirstBomValue(args.length, args.size))
  /\ ret[1].value = Round(R16(CalculateFirstBomValue(args.length, args.size)), 3)

\* the part numbers of a bill, in its order
PartNumbersOf(bom_items) == [i \in DOMAIN bom_items |-> bom_items[i].part_number]

\* the bill of the same size and tier for one piece of 60 inches
ReferenceBom(size, performance) == GenerateBom(size, performance, Fin(60, 1), 1).val

\* C11: the number of BOM lines and the sequence of their part numbers
\* depend on the size and the tier alone, never on the length or the
\* quantity: every bill has the part numbers of the bill for one piece of 60
\* inches, 7 lines for an STD key and 9 for an MLI key, and its item numbers
\* are 1, 2, ..., n in the template's order. The same holds of the bill in a
\* successful result.
C11_BomShape ==
  /\ Billed =>
       /\ Len(ret) = IF args.performance = "STD" THEN 7 ELSE 9
       /\ PartNumbersOf(ret) = PartNumbersOf(ReferenceBom(args.size, args.performance))
       /\ PartNumbersOf(ret) =
            PartNumbersOf(bom_templates[CaseKey(args.size, args.performance)])
       /\ \A i \in DOMAIN ret : ret[i].item_number = i
  /\ (Processed /\ Succeeded) =>
       /\ Len(ret.bom_items) = IF ret.performance = "STD" THEN 7 ELSE 9
       /\ PartNumbersOf(ret.bom_items) =
            PartNumbersOf(ReferenceBom(ret.size, ret.performance))
       /\ \A i \in DOMAIN ret.bom_items : ret.bom_items[i].item_number = i

\* an MLI bill for two pieces of another length: 9 lines with the part
\* numbers of the reference bill, numbered from 1
C11_Witness ==
  /\ Billed
  /\ args.performance = "MLI"
  /\ args.quantity = 2
  /\ args.length = Fin(12, 1)
  /\ Len(ret) = 9
  /\ ret # ReferenceBom(args.size, args.performance)
  /\ PartNumbersOf(ret) = PartNumbersOf(ReferenceBom(args.size, args.performance))
  /\ ret[9].item_number = 9

\* C12: in every successful result of process_part_number every BOM line
\* has a value greater than zero, for every accepted length, the short ones
\* included; stated here for the results of a length greater than zero and
\* a quantity of at least 1.
C12_BomValuesPositive ==
  (Processed /\ Succeeded /\ Positive(ret.length) /\ ret.quantity >= 1) =>
    \A i \in DOMAIN ret.bom_items : Positive(ret.bom_items[i].value)

\* C13: every successful result of process_part_number carries a quantity
\* that is a positive integer; a call with the quantity 0 or a negative
\* quantity yields no successful result.
C13_QuantityPositive ==
  (Processed /\ Succeeded) =>
    /\ ret.quantity \in Nat
    /\ ret.quantity >= 1
    /\ args.quantity >= 1

-----------------------------------------------------------------------------
(* Properties of the production times *)

\* a call of calculate_production_times for one of the two tiers and a
\* finite length
Timed ==
  /\ op = "calculate_production_times"
  /\ args.performance \in {"STD", "MLI"}
  /\ IsFinite(args.length)

\* the operations in their declared order: the name, and the intercept and
\* the slope per foot in thousandths of a minute
ExpectedOperations(tier) ==
  << [name |-> "Insulon Hose Cutting and HP Inner SA", intercept |-> 25000, slope |-> 170],
     IF tier = "STD"
       THEN [name |-> "Insulon Hose Assembly", intercept |-> 15000, slope |-> 440]
       ELSE [name |-> "Insulon Hose Assembly w/ MLI", intercept |-> 20000, slope |-> 1440],
     [name |-> "Insulon Hose Thermal Test", intercept |-> 7500, slope |-> 90],
     [name |-> "Insulon Hose QC and Laser Mark", intercept |-> 10000, slope |-> 83] >>

\* whether t is ceil(intercept + slope * length / 12), the least integer at
\* or above it: everything times 12000 and the length's denominator
IsCeilOfTime(t, e, length) ==
  LET exact == e.intercept * 12 * length.d + e.slope * length.n
      unit == 12000 * length.d
  IN /\ t \in Int
     /\ t * unit >= exact
     /\ (t - 1) * unit < exact

\* C14: for STD and for MLI calculate_production_times returns exactly four
\* operations in the declared order (cutting, assembly, thermal test, QC),
\* each with the time ceil(intercept + slope * length / 12), a positive
\* integer for every length > 0, and with its operation id; the two tiers
\* differ in the assembly operation alone (name, 15 + 0.44 per foot against
\* 20 + 1.44 per foot, id).
C14_ProductionTimes ==
  Timed =>
    /\ raised = "none"
    /\ Len(ret) = 4
    /\ \A i \in 1..4 :
         /\ ret[i].operation = ExpectedOperations(args.performance)[i].name
         /\ IsCeilOfTime(ret[i].time_minutes,
                         ExpectedOperations(args.performance)[i], args.length)
         /\ Positive(args.length) => ret[i].time_minutes >= 1
         /\ ret[i].operation_number =
              (IF args.performance = "STD" THEN STD_OPERATIONS
                                           ELSE MLI_OPERATIONS)[i].op_number
         /\ i # 2 => ret[i] = CalculateProductionTimes("STD", args.length).val[i]
    /\ STD_OPERATIONS[2].op_number # MLI_OPERATIONS[2].op_number

\* the MLI times of 60 inches: 25.85, 27.2, 7.95 and 10.415 minutes, each
\* rounded up
C14_Witness ==
  /\ Timed
  /\ args.performance = "MLI"
  /\ args.length = Fin(60, 1)
  /\ [i \in 1..4 |-> ret[i].time_minutes] = <<26, 28, 8, 11>>
  /\ ret[2].operation = "Insulon Hose Assembly w/ MLI"

\* the sum of the time_minutes of the items from the i-th on
RECURSIVE MinutesFrom(_, _)
MinutesFrom(production_items, i) ==
  IF i > Len(production_items) THEN 0
  ELSE production_items[i].time_minutes + MinutesFrom(production_items, i + 1)

\* C15: in every successful result total_production_time is the sum of
\* time_minutes over the production_items of that same result.
C15_TotalProductionTime ==
  (Processed /\ Succeeded) =>
    ret.total_production_time = MinutesFrom(ret.production_items, 1)

\* a successful result with four operations of 26, 18, 8 and 11 minutes and
\* the total 63
C15_Witness ==
  /\ Processed
  /\ Succeeded
  /\ Len(ret.production_items) = 4
  /\ [i \in 1..4 |-> ret.production_items[i].time_minutes] = StdTimesAt60
  /\ ret.total_production_time = 63

-----------------------------------------------------------------------------
(* Properties of the dimension calculation *)

\* x * m / 1000 for the finite float x
TimesThousandths(x, m) == MulF(x, Fin(m, 1000))

\* the multiplier of a finite length, in thousandths
MultiplierOf(x) ==
  IF AtMost(x, Fin(48, 1)) THEN 1005
  ELSE IF AtMost(x, Fin(120, 1)) THEN 1035
  ELSE IF AtMost(x, Fin(360, 1)) THEN 1050
  ELSE 1072

\* C16: calculate_overall_length multiplies the length by 1.005 when it is
\* at most 48, by 1.035 when it is above 48 and at most 120, by 1.05 when it
\* is above 120 and at most 360, and by 1.072 above 360; 48, 120 and 360
\* themselves take the lower multiplier and a length just above takes the
\* next one.
C16_OverallLength ==
  (op = "calculate_overall_length" /\ IsFinite(args.x)) =>
    /\ raised = "none"
    /\ ret = TimesThousandths(args.x, MultiplierOf(args.x))
    /\ args.x = Fin(48, 1) => ret = Fin(4824, 100)
    /\ args.x = Fin(48001, 1000) => ret = TimesThousandths(args.x, 1035)
    /\ args.x = Fin(120, 1) => ret = Fin(1242, 10)
    /\ args.x = Fin(120001, 1000) => ret = TimesThousandths(args.x, 1050)
    /\ args.x = Fin(360, 1) => ret = Fin(378, 1)
    /\ args.x = Fin(360001, 1000) => ret = TimesThousandths(args.x, 1072)

\* the overall length of 120 inches: 124.2, by the multiplier below the
\* threshold
C16_Witness ==
  /\ op = "calculate_overall_length"
  /\ args.x = Fin(120, 1)
  /\ ret = Fin(1242, 10)
  /\ ret # TimesThousandths(args.x, 1050)

\* the constants of a size in thousandths of an inch: base reduction, base
\* addition and convolution
SizeThousandths(size) ==
  CASE size = SIZE08 -> [reduction |-> 5942, addition |-> 442, convolution |-> 742]
    [] size = SIZE12 -> [reduction |-> 5946, addition |-> 636, convolution |-> 904]
    [] size = SIZE16 -> [reduction |-> 5948, addition |-> 823, convolution |-> 914]

\* a call of calculate_first_bom_value for a supported size and a finite
\* length
Measured ==
  /\ op = "calculate_first_bom_value"
  /\ args.size \in {SIZE08, SIZE12, SIZE16}
  /\ IsFinite(args.length)

\* C17: for each supported size calculate_first_bom_value(length, size) is
\* overallLength(length) - baseReduction + baseAddition + 4.0 + convolution
\* with the constants of the size (08: 5.942, 0.442, 0.742; 12: 5.946, 0.636,
\* 0.904; 16: 5.948, 0.823, 0.914), and it is not rounded to a sixteenth.
C17_FirstBomValue ==
  Measured =>
    LET c == SizeThousandths(args.size)
        overall == TimesThousandths(args.length, MultiplierOf(args.length))
    IN /\ raised = "none"
       /\ ret = AddF(AddF(AddF(AddF(overall, Fin(-c.reduction, 1000)),
                               Fin(c.addition, 1000)),
                          Fin(4, 1)),
                     Fin(c.convolution, 1000))

\* the first BOM value of 60 inches of size 08: 61.342, which is no whole
\* number of sixteenths
C17_Witness ==
  /\ Measured
  /\ args.size = SIZE08
  /\ args.length = Fin(60, 1)
  /\ ret = Fin(61342, 1000)
  /\ 16 % ret.d # 0

\* C18: round_up_to_sixteenth gives the least multiple of 1/16 that is not
\* below its argument, and is idempotent: r16(x) is a whole number of
\* sixteenths, r16(x) >= x, r16(x) - x < 1/16 and r16(r16(x)) = r16(x).
C18_SixteenthRounding ==
  (op = "round_up_to_sixteenth" /\ IsFinite(args.value)) =>
    /\ raised = "none"
    /\ 16 % ret.d = 0
    /\ AtMost(args.value, ret)
    /\ Below(SubF(ret, args.value), Fin(1, 16))
    /\ RoundUpToSixteenth(ret) = Returns(ret)

\* a value that is no multiple of a sixteenth, rounded up, and the result a
\* fixed point of the rounding
C18_Witness ==
  /\ op = "round_up_to_sixteenth"
  /\ args.value = Fin(61342, 1000)
  /\ ret = Fin(61375, 1000)
  /\ RoundUpToSixteenth(ret).val = ret

-----------------------------------------------------------------------------
(* Properties of the length token *)

\* the length token the parser extracts from the code
TokenOf(pn) ==
  LET part_number == Strip(pn)
  IN ExtractLength(part_number, SizeOf(part_number),
                   PerformanceOf(part_number).performance_suffix).length_str

\* whether the token carries the centimeter marker, in any spelling
CarriesMarker(token) == \E m \in CmMarkers : Contains(token, m)

\* the token without its marker
WithoutMarker(token) ==
  IF CarriesMarker(token)
    THEN Remove(token, CHOOSE m \in CmMarkers : Contains(token, m))
    ELSE token

\* the number a token of digits, with at most one point, stands for
NumberOf(digits) ==
  LET at == Find(digits, DOT, 1)
  IN IF at = 0 THEN Fin(DigitsValue(digits), 1)
     ELSE LET whole == Slice(digits, 1, at - 1)
              fraction == Slice(digits, at + 1, Len(digits))
          IN Fin(DigitsValue(whole \o fraction), Pow10(Len(fraction)))

\* whether the token is a number: digits with at most one point
IsNumber(digits) ==
  /\ digits # <<>>
  /\ \A i \in 1..Len(digits) : IsDigit(digits[i]) \/ digits[i] = DOT[1]
  /\ Cardinality({i \in 1..Len(digits) : digits[i] = DOT[1]}) <= 1
  /\ \E i \in 1..Len(digits) : IsDigit(digits[i])

SS_FV12_100CM_1 == SS_FV12 \o HYPHEN \o <<"1", "0", "0", "C", "M">> \o HYPHEN \o S1

SS_FV12_60_1 == SS_FV12 \o HYPHEN \o <<"6", "0">> \o HYPHEN \o S1

\* C19: a length token that carries the CM marker parses to the number over
\* 2.54 with length_unit cm_converted (100CM gives 100 / 2.54, which is
\* 39.3701 to four decimals); a token without the marker parses to the
\* number itself with length_unit inches.
C19_UnitConversion ==
  /\ (Parsed /\ IsNumber(WithoutMarker(TokenOf(args.part_number)))) =>
       LET token == TokenOf(args.part_number)
           number == NumberOf(WithoutMarker(token))
       IN IF CarriesMarker(token)
            THEN /\ ret.length_unit = "cm_converted"
                 /\ MulF(ret.length, Fin(254, 100)) = number
            ELSE /\ ret.length_unit = "inches"
                 /\ ret.length = number
  /\ (op = "parse_part_number" /\ args.part_number = SS_FV12_100CM_1) =>
       /\ Parsed
       /\ ret.length_unit = "cm_converted"
       /\ ret.length = Fin(10000, 254)
       /\ Below(Fin(393700, 10000), ret.length)
       /\ Below(ret.length, Fin(393702, 10000))
  /\ (op = "parse_part_number" /\ args.part_number = SS_FV12_60_1) =>
       /\ Parsed
       /\ ret.length_unit = "inches"
       /\ ret.length = Fin(60, 1)

\* the parse of SS-FV12-100CM-1: 100 centimeters, converted
C19_Witness ==
  /\ Parsed
  /\ args.part_number = SS_FV12_100CM_1
  /\ TokenOf(args.part_number) = <<"1", "0", "0", "C", "M">>
  /\ ret.length_unit = "cm_converted"
  /\ ret.length = Fin(10000, 254)

\* the codes whose third segment is 60 with the marker in the spelling m
ThirdSegment60(m) ==
  { h \o HYPHEN \o <<"6", "0">> \o m \o HYPHEN \o suf :
      h \in {SS_FV12, SS_FV16}, suf \in {S1, S2} }

\* C20: in the shape of three or more segments the CM marker of the length
\* token is recognised whatever its case: a third segment whose digits are
\* followed by CM, cm, Cm or cM is converted from centimeters in all four
\* spellings.
C20_MarkerAnyCase ==
  \A m \in CmMarkers :
    (op = "parse_part_number" /\ args.part_number \in ThirdSegment60(m)) =>
      /\ Parsed
      /\ ret.length_unit = "cm_converted"
      /\ ret.length = Fin(6000, 254)

-----------------------------------------------------------------------------
(* Properties of the length extraction *)

\* the length a token stands for, in inches
InchesOf(token) ==
  IF CarriesMarker(token)
    THEN CmToInches(NumberOf(WithoutMarker(token)))
    ELSE NumberOf(token)

\* the sizes as written in a prefix: 08 is written 8 or 08
WrittenSizes == { <<"8">>, SIZE08, SIZE12, SIZE16 }

\* the length tokens of the examples: inches, a decimal, centimeters
ExampleTokens == { <<"6", "0">>, <<"6", ".", "5">>, <<"6", "0", "C", "M">> }

\* the two-segment code of the size written s: the base pattern, the
\* length token l and the suffix
BaseCode(s, l, suf) == SS_FV \o s \o Middle("base", s) \o l \o suf

\* C21: for every supported size, a two-segment code whose second segment
\* is the base pattern FV{s}TN{s}TN{s}, s being the size as written in the
\* prefix, followed by a length token L and the performance suffix, parses
\* with the length token exactly L: no digit of the size is absorbed into
\* the length.
C21_BasePatternLength ==
  \A s \in WrittenSizes, l \in ExampleTokens, suf \in {S1, S2} :
    (op = "parse_part_number" /\ args.part_number = BaseCode(s, l, suf)) =>
      /\ Parsed
      /\ TokenOf(args.part_number) = l
      /\ ret.length = InchesOf(l)

\* the multi-segment code of the spec's example, SS-FV{s}-TN{s}-{L}{p}
MultiCode(s, l, p) == SS_FV \o s \o Middle("multi", s) \o l \o p

\* C22: for a multi-segment code of the shape SS-FV{s}-TN{s}-{L}{p}, with a
\* supported size and p the single-digit performance indicator, the parsed
\* length is L: neither the performance digit nor the digits of the TN{s}
\* segment are taken as the length.
C22_MultiSegmentLength ==
  \A s \in WrittenSizes, l \in ExampleTokens, p \in {S1, S2} :
    (op = "parse_part_number" /\ args.part_number = MultiCode(s, l, p)) =>
      /\ Parsed
      /\ ret.length = InchesOf(l)

\* the number of hyphen-delimited segments of the code
Segments(pn) == Len(Split(Strip(pn)))

NeedTwoHyphens == "Invalid part number format - need at least 2 hyphens"

\* C23 as stated: a code with fewer than 2 hyphen-delimited segments is
\* rejected with the length-extraction error of the 'need at least 2
\* hyphens' path.
C23_TooFewSegmentsError ==
  (op = "parse_part_number" /\ Segments(args.part_number) < 2) =>
    ret = Error(NeedTwoHyphens, NoText)

\* C23: a code with fewer than 2 hyphen-delimited segments has no hyphen
\* and so cannot start with the family prefix: it is rejected with the
\* unsupported-family error before any length extraction, and no code is
\* rejected with the 'need at least 2 hyphens' error.
C23_TooFewSegmentsIsNoFamily ==
  /\ (op = "parse_part_number" /\ Segments(args.part_number) < 2) =>
       /\ raised = "none"
       /\ ret = Error("Not a valid SS-FV format", NoText)
  /\ (op \in {"parse_part_number", "process_part_number"} /\ Failed) =>
       ret.error[1] # NeedTwoHyphens

\* the parse of SSFV126.51, a code of one segment
C23_Witness ==
  /\ op = "parse_part_number"
  /\ args.part_number = <<"S", "S", "F", "V", "1", "2", "6", ".", "5", "1">>
  /\ Segments(args.part_number) = 1
  /\ ret = Error("Not a valid SS-FV format", NoText)

-----------------------------------------------------------------------------
(* Properties of the parser's rules *)

\* whether the code starts with the family prefix and a supported size
\* sub-prefix
SizeRecognised(part_number) ==
  \E x \in {SS_FV8, SS_FV12, SS_FV16} : StartsWith(part_number, x)

\* whether the code ends with a special suffix or with the digit 1 or 2
SuffixRecognised(part_number) ==
  \E x \in {S0424, S0660, S0663, S0658, S0662, S1, S2} : EndsWith(part_number, x)

InvalidPerformance ==
  Error("Invalid performance indicator (must end with 1, 2, or special codes: 0424, 0660, 0663, 0658, 0662)", NoText)

\* C24: a code that starts with the family prefix and a supported size
\* sub-prefix but ends with neither a special 4-character suffix nor the
\* digit 1 or 2 is rejected with the invalid-performance-indicator error,
\* whatever its length part is.
C24_InvalidPerformanceIndicator ==
  (/\ op \in {"parse_part_number", "process_part_number"}
   /\ SizeRecognised(Strip(args.part_number))
   /\ ~SuffixRecognised(Strip(args.part_number))) =>
    /\ raised = "none"
    /\ ret = InvalidPerformance

\* the parse of SS-FV12-X-3: no length in it, and the suffix is reported
C24_Witness ==
  /\ op = "parse_part_number"
  /\ args.part_number = SS_FV12 \o HYPHEN \o <<"X">> \o HYPHEN \o <<"3">>
  /\ ~SuffixRecognised(args.part_number)
  /\ ret = InvalidPerformance

\* whether the parser reaches the length conversion with a token
TokenFound(pn) ==
  /\ IsFamily(Strip(pn))
  /\ SizeRecognised(Strip(pn))
  /\ SuffixRecognised(Strip(pn))
  /\ TokenOf(pn) # <<>>

\* whether the token, its unit marker stripped, is no number to float()
NotANumber(token) == ParseFloat(WithoutMarker(token)).exc # "none"

\* C25: whenever a length token is found but is not a number after the unit
\* marker is stripped, the caller gets the error 'Invalid length value: ...',
\* both when the token carries the CM marker and when it does not, and both
\* from parse_part_number and from process_part_number.
C25_InvalidLengthValue ==
  (/\ op \in {"parse_part_number", "process_part_number"}
   /\ TokenFound(args.part_number)
   /\ NotANumber(TokenOf(args.part_number))) =>
    /\ raised = "none"
    /\ "error" \in DOMAIN ret
    /\ ret.error[1] = "Invalid length value: "

-----------------------------------------------------------------------------
(* Properties of the fallbacks *)

\* a call of calculate_pricing for a key outside the six configured ones
PricedByFallback ==
  /\ op = "calculate_pricing"
  /\ CaseKey(args.size, args.performance) \notin DOMAIN pricing_formulas

\* C26: calculate_pricing never fails on an unmapped (size, tier) key: for
\* every key outside the six configured ones and every finite length it
\* returns 137.33 + 37.09 * H, H being the length rounded up to half a foot,
\* and its outcome is that of size 08, STD for the same length.
C26_FallbackPrice ==
  PricedByFallback =>
    /\ [exc |-> raised, val |-> ret] = CalculatePricing(args.length, SIZE08, "STD")
    /\ IsFinite(args.length) =>
         /\ raised = "none"
         /\ \E k \in 0..(args.length.n \div (6 * args.length.d) + 1) :
              /\ AtMost(args.length, Fin(6 * k, 1))
              /\ Below(Fin(6 * (k - 1), 1), args.length)
              /\ ret = AddF(Fin(13733, 100), MulF(Fin(3709, 100), Fin(k, 2)))

\* the price of size 20, tier XYZ at 60 inches: 137.33 + 37.09 * 5
C26_Witness ==
  /\ PricedByFallback
  /\ args.size = <<"2", "0">>
  /\ args.performance = "XYZ"
  /\ args.length = Fin(60, 1)
  /\ ret = Fin(32278, 100)

-----------------------------------------------------------------------------
(* Properties of the shared instance *)

\* the thread has returned from process_part_number
Returned(t) == threads[t].pc = "done"

\* the thread is inside process_part_number, between two method calls
Inside(t) == threads[t].pc \notin {"idle", "done"}

\* C27: no call of process_part_number writes the calculator's
\* configuration tables (size_constants, bom_templates, pricing_formulas),
\* so for any interleaving of calls from several threads on one shared
\* instance each call returns exactly the result it returns when run alone,
\* and two calls with the same arguments return equal results.
C27_CallsDoNotInterfere ==
  /\ tables \in {NoCalculator, Calculator}
  /\ \A t \in Threads :
       Returned(t) =>
         threads[t].ret = ProcessPartNumber(threads[t].part_number,
                                            threads[t].quantity).ret
  /\ \A t, u \in Threads :
       (/\ Returned(t) /\ Returned(u)
        /\ threads[t].part_number = threads[u].part_number
        /\ threads[t].quantity = threads[u].quantity) =>
         threads[t].ret = threads[u].ret

\* one thread has returned the result of SS-FV12-60-2 for two parts while
\* the other, given the same code and one part, is between generate_bom and
\* its pricing
C27_Witness ==
  /\ Returned("t1")
  /\ threads["t1"].part_number = SS_FV12 \o HYPHEN \o <<"6", "0">> \o HYPHEN \o S2
  /\ threads["t1"].quantity = 2
  /\ Len(threads["t1"].ret.bom_items) = 9
  /\ Inside("t2")
  /\ threads["t2"].pc = "calculate_pricing"
  /\ threads["t2"].part_number = threads["t1"].part_number
  /\ threads["t2"].quantity = 1
  /\ Len(threads["t2"].bom_items) = 9

\* C28: the engine performs no disk or network I/O: constructing a
\* SmartNumberCalculator and calling process_part_number any number of
\* times leaves the file system unchanged.
C28_FileSystemUnchanged == [][fs' = fs]_vars

UnsupportedFamily == Error("Not a valid SS-FV format", NoText)

UnknownSize == Error("Unknown SS-FV size", NoText)

\* whether the outcome reports a problem of the length: an error of the
\* extraction or of the value, or the exception of the conversion
LengthProblem ==
  \/ raised # "none"
  \/ /\ "error" \in DOMAIN ret
     /\ ret \notin {UnsupportedFamily, UnknownSize, InvalidPerformance}

\* C29: the parser applies its rules in the order family prefix, size,
\* performance suffix, length extraction, length value, and reports the
\* error of the first rule that fails: a code that does not start with the
\* family prefix always yields the unsupported-family error, a code with the
\* family prefix but an unknown size yields the unknown-size error even if
\* its suffix or length is also invalid, and an invalid suffix is reported
\* before any length problem.
C29_RuleOrder ==
  op = "parse_part_number" =>
    LET part_number == Strip(args.part_number)
    IN /\ ~StartsWith(part_number, SS_FV) =>
            raised = "none" /\ ret = UnsupportedFamily
       /\ (StartsWith(part_number, SS_FV) /\ ~SizeRecognised(part_number)) =>
            raised = "none" /\ ret = UnknownSize
       /\ (SizeRecognised(part_number) /\ ~SuffixRecognised(part_number)) =>
            raised = "none" /\ ret = InvalidPerformance
       /\ LengthProblem =>
            SizeRecognised(part_number) /\ SuffixRecognised(part_number)
       /\ (raised = "none" /\ "error" \in DOMAIN ret
             /\ ret.error[1] = "Invalid length value: ") =>
            TokenFound(args.part_number)

\* the parse of SS-FV20-X-3: the size is unknown, the suffix is invalid and
\* there is no length; the size is what is reported
C29_Witness ==
  /\ op = "parse_part_number"
  /\ args.part_number = SS_FV \o <<"2", "0">> \o HYPHEN \o <<"X">> \o HYPHEN \o <<"3">>
  /\ ~SizeRecognised(args.part_number)
  /\ ~SuffixRecognised(args.part_number)
  /\ TokenOf(args.part_number) = <<>>
  /\ ret = UnknownSize

\* the six configured keys
ConfiguredKeys ==
  { CaseKey(size, tier) : size \in {SIZE08, SIZE12, SIZE16}, tier \in {"STD", "MLI"} }

\* what C30 says of a successful result, but for its first_bom_value
KeyConfigured ==
  LET key == CaseKey(ret.size, ret.performance)
  IN /\ key \in ConfiguredKeys
     /\ key \in DOMAIN bom_templates
     /\ key \in DOMAIN pricing_formulas
     /\ ret.size \in DOMAIN size_constants
     /\ Len(ret.bom_items) \in {7, 9}
     /\ Len(ret.bom_items) = Len(bom_templates[key])
     /\ Len(ret.production_items) = 4
     /\ LET pricing_config == pricing_formulas[key]
            h == RoundUpToHalfFeet(ret.length).val
        IN ret.unit_price =
             RoundCents(AddF(pricing_config.base_price,
                             MulF(pricing_config.price_per_foot, h)))
     /\ \E i \in DOMAIN invoked : invoked[i] = "calculate_first_bom_value"

\* C30 as stated: the defensive fallbacks are unreachable through
\* process_part_number: for every input that parses successfully the (size,
\* tier) key is one of the six configured keys, so the BOM has 7 or 9 lines,
\* production_items has exactly 4 operations, the price is that of the key,
\* calculate_first_bom_value does not return its unknown-size value 0, and
\* first_bom_value is the sixteenth-rounded first component length.
C30_FallbacksUnreachableExact ==
  (Processed /\ Succeeded) =>
    /\ KeyConfigured
    /\ ret.first_bom_value = R16(CalculateFirstBomValue(ret.length, ret.size))

\* C30: the same, with first_bom_value the sixteenth-rounded first component
\* length as stored, rounded to 3 decimals: that length itself when it is a
\* whole number of eighths, and half a thousandth away from it otherwise.
C30_FallbacksUnreachable ==
  (Processed /\ Succeeded) =>
    /\ KeyConfigured
    /\ LET exact == R16(CalculateFirstBomValue(ret.length, ret.size))
       IN /\ ret.first_bom_value = Round(exact, 3)
          /\ WholeEighths(exact) => ret.first_bom_value = exact
          /\ ~WholeEighths(exact) =>
               Abs(SubF(ret.first_bom_value, exact).n) * 2000
                 = SubF(ret.first_bom_value, exact).d

\* the result of SS-FV8-60-1: the first component length 61.342 rounded up
\* to 61.375, a whole number of eighths
C30_Witness ==
  /\ Processed /\ Succeeded
  /\ args.part_number = SS_FV8 \o HYPHEN \o <<"6", "0">> \o HYPHEN \o S1
  /\ ret.size = SIZE08
  /\ Len(ret.bom_items) = 7
  /\ ret.first_bom_value = Fin(61375, 1000)

=============================================================================
